---- MODULE Spec2Model ----
(***************************************************************************)
(* Event routing and ingestion engine of the WhatsApp webhook service.     *)
(*                                                                         *)
(* The state is the `conversations` collection of the document store, the  *)
(* `businesses` collection (tenants), the in-process business cache, the   *)
(* asynchronous executions of the processing functions (`workers`: one     *)
(* record per execution, holding its position and its local variables),    *)
(* and the last HTTP exchange.  Every action is one store operation of the *)
(* code (one awaited findOne / insertOne / updateOne) together with the    *)
(* synchronous code around it: store operations are the points at which    *)
(* executions interleave.                                                  *)
(*                                                                         *)
(* Not part of the state: the bookkeeping dates createdAt / updatedAt /    *)
(* deliveredAt / readAt (no guard reads them) and the campaigns            *)
(* collection.                                                             *)
(***************************************************************************)
EXTENDS Integers, Sequences, FiniteSets, TLC

VARIABLES conversations, businesses, cache, now, workers, opsStarted, http,
          alerts, handler

vars == <<conversations, businesses, cache, now, workers, opsStarted, http,
          alerts, handler>>

-----------------------------------------------------------------------------
(* Bounds of the model *)

\* total number of processing-function executions started in one behaviour
MaxOps == 3

\* calls made on the seeded store
MaxRaceOps == 4

\* the clock runs over MaxTicks TTLs, and MaxTicks milliseconds after each
MaxTicks == 2

\* ingestion calls made in the runs that exercise every ingestion operation
MaxAppendOps == 5

\* calls made in the runs that fill the profile history
MaxHistoryOps == 9

\* messages ingested in the runs over every message type
MaxContentOps == 2

-----------------------------------------------------------------------------
(* Program constants *)

\* new Date(parseInt(messageData.timestamp) * 1000)
MsPerSecond == 1000
\* 24 * 60 * 60 * 1000
WindowMs == 86400000
\* this.CACHE_TTL = 5 * 60 * 1000
CACHE_TTL == 300000

None == "none"

Workers == {1, 2}

\* written forms of contact addresses, one character per element; "+" stands
\* for any non-digit character
PhoneA == <<"9", "1", "5">>
PhoneB == <<"5">>
PhoneD == <<"9", "1", "7">>

MsgIds == {"m1", "m2"}

\* the platform's timestamp (seconds) of each event id: a redelivered event
\* carries the data of the first delivery
EventTime(id) == IF id = "m1" THEN 1 ELSE 2
Emojis == {"", "thumb", "heart"}
Statuses == {"sent", "delivered", "read", "failed"}
ConvStatuses == {"active", "archived", "closed"}

-----------------------------------------------------------------------------
(* Generic helpers *)

\* Array.prototype.findIndex, 1-based; 0 when no element satisfies Test
FindIndex(s, Test(_)) ==
  IF \E i \in 1..Len(s) : Test(s[i])
  THEN CHOOSE i \in 1..Len(s) : Test(s[i]) /\ \A j \in 1..(i - 1) : ~Test(s[j])
  ELSE 0

\* number of elements of s that satisfy Test
CountIf(s, Test(_)) == Cardinality({i \in 1..Len(s) : Test(s[i])})

-----------------------------------------------------------------------------
(* Tenants: the businesses collection *)

\* Business documents.  owner is not unique: b1 and b2 belong to one user.
InitialBusinesses ==
  [b1 |-> [_id |-> "b1", owner |-> "u1", phoneNumberId |-> "p1", wabaId |-> "w1",
           appSecret |-> "s1", verifyToken |-> "t1", status |-> "active",
           isDeleted |-> FALSE, updatedAt |-> 0],
   b2 |-> [_id |-> "b2", owner |-> "u1", phoneNumberId |-> "p2", wabaId |-> "w2",
           appSecret |-> "s2", verifyToken |-> "t2", status |-> "active",
           isDeleted |-> FALSE, updatedAt |-> 0],
   b3 |-> [_id |-> "b3", owner |-> "u2", phoneNumberId |-> "p3", wabaId |-> "w3",
           appSecret |-> None, verifyToken |-> "t3", status |-> "active",
           isDeleted |-> FALSE, updatedAt |-> 0]]

BusinessIds == DOMAIN InitialBusinesses
PhoneNumberIds == {"p1", "p2", "p3"}

\* the null a lookup returns when no business matches
NoBusiness ==
  [_id |-> None, owner |-> None, phoneNumberId |-> None, wabaId |-> None,
   appSecret |-> None, verifyToken |-> None, status |-> None, isDeleted |-> FALSE,
   updatedAt |-> 0]

\* Business.findOne({'whatsappConfig.phoneNumberId': p, status: 'active'})
FindActiveByPhoneNumberId(p) ==
  LET hit == {b \in BusinessIds :
                /\ businesses[b].phoneNumberId = p
                /\ businesses[b].status = "active"}
  IN IF hit = {} THEN NoBusiness ELSE businesses[CHOOSE b \in hit : TRUE]

\* Business.findOne({'whatsappConfig.wabaId': id}) of handleWebhook: no status filter
FindByWabaId(id) ==
  LET hit == {b \in BusinessIds : businesses[b].wabaId = id}
  IN IF hit = {} THEN NoBusiness ELSE businesses[CHOOSE b \in hit : TRUE]

\* cache key `phone:${phoneNumberId}`
PhoneKey(p) == <<"phone", p>>

CacheKeys == {PhoneKey(p) : p \in PhoneNumberIds}

\* this.cache = new Map()
EmptyCache ==
  [k \in CacheKeys |-> [present |-> FALSE, business |-> NoBusiness, timestamp |-> 0]]

\* cached && Date.now() - cached.timestamp < this.CACHE_TTL
CacheHit(key) ==
  /\ key \in CacheKeys
  /\ cache[key].present
  /\ now - cache[key].timestamp < CACHE_TTL

\* businessCache.getByPhoneNumberId: the business returned
GetByPhoneNumberId(p) ==
  IF CacheHit(PhoneKey(p)) THEN cache[PhoneKey(p)].business
  ELSE FindActiveByPhoneNumberId(p)

\* businessCache.getByPhoneNumberId: the cache after the call
CacheAfterGetByPhoneNumberId(p) ==
  IF CacheHit(PhoneKey(p)) \/ FindActiveByPhoneNumberId(p) = NoBusiness
  THEN cache
  ELSE [cache EXCEPT ![PhoneKey(p)] =
          [present |-> TRUE, business |-> FindActiveByPhoneNumberId(p),
           timestamp |-> now]]

-----------------------------------------------------------------------------
(* Phone normalisation *)

IsDigit(ch) == ch \in {"0", "1", "2", "3", "4", "5", "6", "7", "8", "9"}

StripNonDigits(s) == SelectSeq(s, IsDigit)

StartsWith91(s) == Len(s) >= 2 /\ s[1] = "9" /\ s[2] = "1"

\* phoneNumber.toString().replace(/\D/g, ''), then the '91' prefix unless present
normalizePhone(phoneNumber) ==
  LET normalized == StripNonDigits(phoneNumber)
  IN IF StartsWith91(normalized) THEN normalized ELSE <<"9", "1">> \o normalized

-----------------------------------------------------------------------------
(* Webhook payloads (the `value` of one change) *)

\* a change value whose messages[0] is a text message; a text is a sequence of
\* tokens, <<>> the empty (or absent) string
TextMsg(p, from, id, ts) ==
  [phoneNumberId |-> p, from |-> from, id |-> id, type |-> "text",
   timestamp |-> ts, body |-> <<"Hi">>, reactionTo |-> None, emoji |-> None]

\* a change value whose messages[0] is a reaction to message `target`
ReactionMsg(p, from, id, ts, target, emoji) ==
  [phoneNumberId |-> p, from |-> from, id |-> id, type |-> "reaction",
   timestamp |-> ts, body |-> <<>>, reactionTo |-> target, emoji |-> emoji]

NoMsg == TextMsg(None, <<>>, None, 0)

\* the query of a request that is not a GET /webhook
NoQuery == [mode |-> None, token |-> None, challenge |-> None]

\* one element of value.statuses
StatusEvent(id, status) == [id |-> id, status |-> status]

\* new Date(parseInt(messageData.timestamp) * 1000).getTime()
MessageTime(v) == v.timestamp * MsPerSecond

\* a change value whose messages[0] has a type other than text or reaction:
\* `subtype` is interactive.type, `detail` the location name, the formatted
\* name of the first contact or the title of the reply (None when absent);
\* such a message has no text.body
TypedMsg(p, from, id, ts, type, subtype, detail) ==
  [phoneNumberId |-> p, from |-> from, id |-> id, type |-> type,
   timestamp |-> ts, body |-> <<>>, reactionTo |-> None, emoji |-> None,
   subtype |-> subtype, detail |-> detail]

\* the types whose case in buildMessageContent sets media fields only
MediaTypes == {"image", "video", "audio", "document", "sticker"}

\* x || fallback for a string x
OrElse(x, fallback) == IF x \in {None, ""} THEN fallback ELSE x

\* buildMessageContent(messageData).text: text.body || '' unless the case of
\* the type replaces it
ContentText(v) ==
  CASE v.type = "text" -> v.body
    [] v.type \in MediaTypes -> v.body
    [] v.type = "location" -> <<"pin", OrElse(v.detail, "Location")>>
    [] v.type = "contacts" -> <<"Contact:", OrElse(v.detail, "Unknown")>>
    [] v.type = "interactive" ->
         IF v.subtype = "button_reply" THEN <<OrElse(v.detail, "[Button Reply]")>>
         ELSE IF v.subtype = "list_reply" THEN <<OrElse(v.detail, "[List Reply]")>>
         ELSE v.body
    [] v.type = "reaction" ->
         <<IF v.emoji \in {None, ""} THEN "heart" ELSE v.emoji, "Reacted to message">>
    [] OTHER -> <<"[", v.type, "]">>

\* messageData.text?.body || `[${messageData.type}]`
PreviewText(v) ==
  IF v.body = <<>> THEN <<"[", v.type, "]">> ELSE v.body

\* messageDoc of processIncomingMessage, as stored by saveMessageToConversation
MessageDoc(v, business) ==
  [whatsappMessageId |-> v.id,
   from |-> v.from,
   to |-> business.phoneNumberId,
   direction |-> "incoming",
   type |-> v.type,
   text |-> ContentText(v),
   timestamp |-> MessageTime(v),
   status |-> "delivered",
   businessId |-> business._id,
   reactions |-> <<>>]

-----------------------------------------------------------------------------
(* The conversations collection *)

ConvIds == 1..Len(conversations)

HasMessage(c, id) == \E i \in 1..Len(c.messages) : c.messages[i].whatsappMessageId = id

\* the document inserted by findOrCreateConversation
NewConversation(id, phone, name, userId, businessId, text, ts) ==
  [_id |-> id,
   contact |-> [phoneNumber |-> phone, name |-> name],
   userId |-> userId,
   businessId |-> businessId,
   status |-> "active",
   messages |-> <<>>,
   lastMessage |-> [text |-> text, type |-> "text", direction |-> "incoming",
                    timestamp |-> ts, status |-> "delivered"],
   lastMessageAt |-> ts,
   unreadCount |-> 0,
   conversationWindow |-> [isOpen |-> TRUE, openedAt |-> ts,
                           expiresAt |-> ts + WindowMs, category |-> "user_initiated"],
   metrics |-> [totalMessages |-> 0, incomingMessages |-> 0, outgoingMessages |-> 0,
                conversationsOpened |-> 0],
   isDeleted |-> FALSE]

\* findOne({'contact.phoneNumber', userId, businessId, isDeleted: false}): the _id
\* of the first matching document, 0 when there is none
FindConversation(phone, userId, businessId) ==
  LET hit == {i \in ConvIds :
                /\ conversations[i].contact.phoneNumber = phone
                /\ conversations[i].userId = userId
                /\ conversations[i].businessId = businessId
                /\ conversations[i].isDeleted = FALSE}
  IN IF hit = {} THEN 0 ELSE CHOOSE i \in hit : \A j \in hit : i <= j

\* a collection without the unique index
UniqueIndexAbsent(phone, userId) == FALSE

\* unique index {'contact.phoneNumber': 1, userId: 1} created by createIndexes:
\* TRUE when inserting a document with this key raises a duplicate-key error
UniqueIndexViolated(phone, userId) ==
  \E i \in ConvIds :
    /\ conversations[i].contact.phoneNumber = phone
    /\ conversations[i].userId = userId

\* findOne({'messages.whatsappMessageId': id}): the _id of the first conversation
\* holding a message with this id, 0 when there is none
FindConversationOfMessage(id) ==
  LET hit == {i \in ConvIds : HasMessage(conversations[i], id)}
  IN IF hit = {} THEN 0 ELSE CHOOSE i \in hit : \A j \in hit : i <= j

-----------------------------------------------------------------------------
(* Executions of the processing functions *)

\* the change and value of a processAccountAlert call; NoAlert: none
NoAlert == [field |-> None, event |-> None, hasValue |-> FALSE]

\* no handleWebhook execution has started
\* retry records that the request is the one before it, delivered again after
\* the processing of the first delivery had ended without a failure
IdleHandler ==
  [pc |-> "idle", body |-> <<>>, e |-> 0, called |-> {}, failed |-> FALSE,
   retry |-> FALSE]

IdleWorker ==
  [pc |-> "idle", op |-> None, msg |-> NoMsg, statuses |-> <<>>, i |-> 0,
   business |-> NoBusiness, conv |-> 0, cur |-> None, rx |-> None, rxIndex |-> 0,
   result |-> None, notified |-> 0, delivered |-> 0, existed |-> FALSE,
   alert |-> NoAlert, at |-> 0]

Free(w) == workers[w].pc \in {"idle", "done"}

\* executions are numbered slots: a new one takes the lowest free slot
CanStartWithin(w, limit) ==
  /\ Free(w)
  /\ \A u \in Workers : u < w => ~Free(u)
  /\ opsStarted < limit

CanStart(w) == CanStartWithin(w, MaxOps)

AllFree == \A w \in Workers : Free(w)

\* the execution returns or throws: its locals are gone, its outcome is kept
Finished(w, result) ==
  [IdleWorker EXCEPT !.pc = "done", !.op = workers[w].op, !.msg = workers[w].msg,
                     !.statuses = workers[w].statuses, !.conv = workers[w].conv,
                     !.cur = workers[w].cur, !.existed = workers[w].existed,
                     !.notified = workers[w].notified,
                     !.delivered = workers[w].delivered,
                     !.alert = workers[w].alert, !.result = result]

Init ==
  /\ conversations = <<>>
  /\ businesses = InitialBusinesses
  /\ cache = EmptyCache
  /\ now = 0
  /\ workers = [w \in Workers |-> IdleWorker]
  /\ opsStarted = 0
  /\ http = [status |-> None, handled |-> FALSE, tampered |-> FALSE,
             query |-> NoQuery, body |-> None, signed |-> FALSE,
             skipped |-> None]
  /\ alerts = <<>>
  /\ handler = IdleHandler

-----------------------------------------------------------------------------
(* processIncomingMessage: tenant routing and findOrCreateConversation *)

\* where processIncomingMessage goes once it holds the conversation
AfterConversation(v) == IF v.type = "reaction" THEN "react_find" ELSE "save_check"

\* the start of a processIncomingMessage call, up to its first store operation:
\* extractMessageData, the phone_number_id guard and
\* businessCache.getByPhoneNumberId; it throws when no active business is found.
\* `existed` records whether the message id was already stored for this tenant
\* and contact when the call was made.
IncomingCall(v) ==
  LET business == IF v.phoneNumberId = None THEN NoBusiness
                  ELSE GetByPhoneNumberId(v.phoneNumberId)
      c == FindConversation(normalizePhone(v.from), business.owner, business._id)
      called == [IdleWorker EXCEPT !.op = "incoming", !.msg = v]
  IN IF business = NoBusiness
     THEN [called EXCEPT !.pc = "done", !.result = "error"]
     ELSE [called EXCEPT !.pc = "find_conv", !.business = business,
                         !.existed = c # 0 /\ HasMessage(conversations[c], v.id)]

\* a processIncomingMessage call made directly with a change value, while fewer
\* than `limit` calls have been made
StartIncomingWithin(w, v, limit) ==
  /\ CanStartWithin(w, limit)
  /\ opsStarted' = opsStarted + 1
  /\ cache' = IF v.phoneNumberId = None THEN cache
              ELSE CacheAfterGetByPhoneNumberId(v.phoneNumberId)
  /\ workers' = [workers EXCEPT ![w] = IncomingCall(v)]
  /\ UNCHANGED <<conversations, businesses, now, http, alerts, handler>>

StartIncoming(w, v) == StartIncomingWithin(w, v, MaxOps)

\* findOrCreateConversation: the findOne by (phone, userId, businessId, isDeleted)
FindConv(w) ==
  LET me == workers[w]
      c == FindConversation(normalizePhone(me.msg.from), me.business.owner,
                            me.business._id)
  IN /\ me.pc = "find_conv"
     /\ workers' = [workers EXCEPT ![w] =
          IF c # 0
          THEN [me EXCEPT !.conv = c, !.pc = AfterConversation(me.msg)]
          ELSE [me EXCEPT !.pc = "insert_conv"]]
     /\ UNCHANGED <<conversations, businesses, cache, now, opsStarted, http, alerts, handler>>

\* findOrCreateConversation: the insertOne; a duplicate key makes it throw
InsertConv(w) ==
  LET me == workers[w]
      phone == normalizePhone(me.msg.from)
      id == Len(conversations) + 1
  IN /\ me.pc = "insert_conv"
     /\ IF UniqueIndexViolated(phone, me.business.owner)
        THEN /\ workers' = [workers EXCEPT ![w] = Finished(w, "error")]
             /\ UNCHANGED conversations
        ELSE /\ conversations' = Append(conversations,
                   NewConversation(id, phone, me.msg.from, me.business.owner,
                                   me.business._id, PreviewText(me.msg),
                                   MessageTime(me.msg)))
             /\ workers' = [workers EXCEPT ![w] =
                   [me EXCEPT !.conv = id, !.pc = "refetch_conv"]]
     /\ UNCHANGED <<businesses, cache, now, opsStarted, http, alerts, handler>>

\* findOrCreateConversation: the findOne({_id: result.insertedId})
RefetchConv(w) ==
  LET me == workers[w]
  IN /\ me.pc = "refetch_conv"
     /\ workers' = [workers EXCEPT ![w] = [me EXCEPT !.pc = AfterConversation(me.msg)]]
     /\ UNCHANGED <<conversations, businesses, cache, now, opsStarted, http, alerts, handler>>

-----------------------------------------------------------------------------
(* saveMessageToConversation *)

\* an existence check that finds no conversation
IsDuplicateNever(c, id) == FALSE

\* the filter {_id: conversationId, 'messages.whatsappMessageId': id} finds the
\* conversation: the message is taken for a duplicate
IsDuplicate(c, id) == HasMessage(c, id)

\* the findOne({_id, 'messages.whatsappMessageId'}) existence check
SaveCheck(w) ==
  LET me == workers[w]
  IN /\ me.pc = "save_check"
     /\ workers' = [workers EXCEPT ![w] =
          IF IsDuplicate(conversations[me.conv], me.msg.id)
          THEN Finished(w, "duplicate")
          ELSE [me EXCEPT !.pc = "save_read"]]
     /\ UNCHANGED <<conversations, businesses, cache, now, opsStarted, http, alerts, handler>>

\* the findOne({_id}) that reads the status to decide on the auto-reopen
SaveRead(w) ==
  LET me == workers[w]
  IN /\ me.pc = "save_read"
     /\ workers' = [workers EXCEPT ![w] =
          [me EXCEPT !.cur = conversations[me.conv].status, !.pc = "save_push"]]
     /\ UNCHANGED <<conversations, businesses, cache, now, opsStarted, http, alerts, handler>>

\* an append that keeps the window of a conversation whose window is open
PushedConversationKeepingWindow(c, v, business, cur) ==
  [c EXCEPT
     !.messages = Append(@, MessageDoc(v, business)),
     !.lastMessage = [text |-> IF ContentText(v) = <<>> THEN <<"[", v.type, "]">>
                               ELSE ContentText(v),
                      type |-> v.type, direction |-> "incoming",
                      timestamp |-> MessageTime(v), status |-> "delivered"],
     !.lastMessageAt = MessageTime(v),
     !.conversationWindow = IF @.isOpen THEN @
                            ELSE [isOpen |-> TRUE, openedAt |-> MessageTime(v),
                                  expiresAt |-> MessageTime(v) + WindowMs,
                                  category |-> "user_initiated"],
     !.status = IF cur \in {"archived", "closed"} THEN "active" ELSE @,
     !.unreadCount = @ + 1,
     !.metrics = [@ EXCEPT !.totalMessages = @ + 1, !.incomingMessages = @ + 1,
                           !.conversationsOpened = @ + 1]]

\* an update whose $inc leaves metrics.incomingMessages alone
PushedConversationUncounted(c, v, business, cur) ==
  [c EXCEPT
     !.messages = Append(@, MessageDoc(v, business)),
     !.lastMessage = [text |-> IF ContentText(v) = <<>> THEN <<"[", v.type, "]">>
                               ELSE ContentText(v),
                      type |-> v.type, direction |-> "incoming",
                      timestamp |-> MessageTime(v), status |-> "delivered"],
     !.lastMessageAt = MessageTime(v),
     !.conversationWindow = [isOpen |-> TRUE, openedAt |-> MessageTime(v),
                             expiresAt |-> MessageTime(v) + WindowMs,
                             category |-> "user_initiated"],
     !.status = IF cur \in {"archived", "closed"} THEN "active" ELSE @,
     !.unreadCount = @ + 1,
     !.metrics = [@ EXCEPT !.totalMessages = @ + 1, !.conversationsOpened = @ + 1]]

\* an update that puts the new message before the stored ones
PushedConversationPrepending(c, v, business, cur) ==
  [c EXCEPT
     !.messages = <<MessageDoc(v, business)>> \o @,
     !.lastMessage = [text |-> IF ContentText(v) = <<>> THEN <<"[", v.type, "]">>
                               ELSE ContentText(v),
                      type |-> v.type, direction |-> "incoming",
                      timestamp |-> MessageTime(v), status |-> "delivered"],
     !.lastMessageAt = MessageTime(v),
     !.conversationWindow = [isOpen |-> TRUE, openedAt |-> MessageTime(v),
                             expiresAt |-> MessageTime(v) + WindowMs,
                             category |-> "user_initiated"],
     !.status = IF cur \in {"archived", "closed"} THEN "active" ELSE @,
     !.unreadCount = @ + 1,
     !.metrics = [@ EXCEPT !.totalMessages = @ + 1, !.incomingMessages = @ + 1,
                           !.conversationsOpened = @ + 1]]

\* the document after updateOne({_id}, {$push, $set, $inc})
PushedConversation(c, v, business, cur) ==
  [c EXCEPT
     !.messages = Append(@, MessageDoc(v, business)),
     !.lastMessage = [text |-> IF ContentText(v) = <<>> THEN <<"[", v.type, "]">>
                               ELSE ContentText(v),
                      type |-> v.type, direction |-> "incoming",
                      timestamp |-> MessageTime(v), status |-> "delivered"],
     !.lastMessageAt = MessageTime(v),
     !.conversationWindow = [isOpen |-> TRUE, openedAt |-> MessageTime(v),
                             expiresAt |-> MessageTime(v) + WindowMs,
                             category |-> "user_initiated"],
     !.status = IF cur \in {"archived", "closed"} THEN "active" ELSE @,
     !.unreadCount = @ + 1,
     !.metrics = [@ EXCEPT !.totalMessages = @ + 1, !.incomingMessages = @ + 1,
                           !.conversationsOpened = @ + 1]]

\* the updateOne that appends the message
SavePush(w) ==
  LET me == workers[w]
  IN /\ me.pc = "save_push"
     /\ conversations' = [conversations EXCEPT ![me.conv] =
          PushedConversation(@, me.msg, me.business, me.cur)]
     /\ workers' = [workers EXCEPT ![w] = [me EXCEPT !.pc = "notify", !.result = "saved"]]
     /\ UNCHANGED <<businesses, cache, now, opsStarted, http, alerts, handler>>

\* a notifyClients that lets the failure of its POST escape to the caller
NotifyResultThrowing(result, up) == IF up THEN result ELSE "error"

\* the outcome of the caller after notifyClients: the POST to the backend is
\* made inside a try whose catch does not rethrow, whether the backend is up or not
NotifyResult(result, up) == result

\* the notifyClients calls that end processIncomingMessage: two for a stored
\* message, one for a reaction; `delivered` counts those the backend received
Notify(w) ==
  LET me == workers[w]
      n == IF me.result = "saved" THEN 2 ELSE 1
  IN /\ me.pc = "notify"
     /\ \E up \in BOOLEAN :
          workers' = [workers EXCEPT ![w] =
            [Finished(w, NotifyResult(me.result, up)) EXCEPT
               !.notified = n, !.delivered = IF up THEN n ELSE 0]]
     /\ UNCHANGED <<conversations, businesses, cache, now, opsStarted, http, alerts, handler>>

-----------------------------------------------------------------------------
(* addReactionToMessage *)

\* an array slot MongoDB pads with null when $set writes beyond the end
NullReaction == [from |-> <<"null">>, emoji |-> "null", timestamp |-> 0]

\* the element {timestamp} that `$set reactions.<i>.timestamp` creates at a
\* position the array does not have
PartialReaction(ts) == [from |-> <<>>, emoji |-> None, timestamp |-> ts]

Reaction(from, emoji, ts) == [from |-> from, emoji |-> emoji, timestamp |-> ts]

\* conversation.messages.find(msg => msg.whatsappMessageId === id)
TargetMessage(c, id) ==
  c.messages[CHOOSE i \in 1..Len(c.messages) :
               /\ c.messages[i].whatsappMessageId = id
               /\ \A j \in 1..(i - 1) : c.messages[j].whatsappMessageId # id]

\* reactions.findIndex(r => r.from === from && r.emoji === emoji), 1-based
ExistingReactionIndex(reactions, from, emoji) ==
  LET Same(r) == r.from = from /\ r.emoji = emoji
  IN FindIndex(reactions, Same)

\* the findIndex callback reads r.from of a null element before it finds a match
FindIndexThrows(reactions, from, emoji) ==
  LET idx == ExistingReactionIndex(reactions, from, emoji)
      last == IF idx = 0 THEN Len(reactions) ELSE idx
  IN \E i \in 1..last : reactions[i] = NullReaction

\* the branch of updateOperation: update the timestamp, remove, or add
ReactionBranch(idx, emoji) ==
  IF idx > 0 THEN "set_timestamp"
  ELSE IF emoji = "" THEN "pull"
  ELSE "push"

\* $set messages.$[msg].reactions.<idx>.timestamp
SetTimestampAt(reactions, idx, ts) ==
  IF idx <= Len(reactions)
  THEN [reactions EXCEPT ![idx] = [@ EXCEPT !.timestamp = ts]]
  ELSE reactions \o [i \in 1..(idx - Len(reactions)) |->
                       IF i = idx - Len(reactions) THEN PartialReaction(ts)
                       ELSE NullReaction]

\* $pull messages.$[msg].reactions {from}
PullFrom(reactions, from) ==
  LET Keep(r) == r.from # from
  IN SelectSeq(reactions, Keep)

\* the reactions array of one matched message after updateOperation
ReactionsAfter(reactions, rx, idx, from, emoji, ts) ==
  CASE rx = "set_timestamp" -> SetTimestampAt(reactions, idx, ts)
    [] rx = "pull" -> PullFrom(reactions, from)
    [] OTHER -> Append(reactions, Reaction(from, emoji, ts))

\* the server refuses to create a field in a null array element
UpdateFails(c, target, rx, idx) ==
  /\ rx = "set_timestamp"
  /\ \E i \in 1..Len(c.messages) :
       /\ c.messages[i].whatsappMessageId = target
       /\ idx <= Len(c.messages[i].reactions)
       /\ c.messages[i].reactions[idx] = NullReaction

\* the document after updateOne with arrayFilters [{'msg.whatsappMessageId'}]:
\* every message carrying the id is updated
ReactedConversation(c, target, rx, idx, from, emoji, ts) ==
  [c EXCEPT !.messages =
     [i \in 1..Len(c.messages) |->
        IF c.messages[i].whatsappMessageId = target
        THEN [c.messages[i] EXCEPT
                !.reactions = ReactionsAfter(@, rx, idx, from, emoji, ts)]
        ELSE c.messages[i]]]

\* the findOne that locates the target and chooses the update
ReactFind(w) ==
  LET me == workers[w]
      c == conversations[me.conv]
      reactions == TargetMessage(c, me.msg.reactionTo).reactions
      idx == ExistingReactionIndex(reactions, me.msg.from, me.msg.emoji)
  IN /\ me.pc = "react_find"
     /\ workers' = [workers EXCEPT ![w] =
          IF ~HasMessage(c, me.msg.reactionTo)
          THEN [me EXCEPT !.pc = "save_check"]
          ELSE IF FindIndexThrows(reactions, me.msg.from, me.msg.emoji)
          THEN [me EXCEPT !.pc = "save_check"]
          ELSE [me EXCEPT !.rx = ReactionBranch(idx, me.msg.emoji), !.rxIndex = idx,
                          !.pc = "react_update"]]
     /\ UNCHANGED <<conversations, businesses, cache, now, opsStarted, http, alerts, handler>>

\* the updateOne of the reaction; a failure is caught and reported as
\* {success: false}, which makes processIncomingMessage store a message instead
ReactUpdate(w) ==
  LET me == workers[w]
      c == conversations[me.conv]
  IN /\ me.pc = "react_update"
     /\ IF UpdateFails(c, me.msg.reactionTo, me.rx, me.rxIndex)
        THEN /\ workers' = [workers EXCEPT ![w] = [me EXCEPT !.pc = "save_check"]]
             /\ UNCHANGED conversations
        ELSE /\ conversations' = [conversations EXCEPT ![me.conv] =
                   ReactedConversation(@, me.msg.reactionTo, me.rx, me.rxIndex,
                                       me.msg.from, me.msg.emoji, MessageTime(me.msg))]
             /\ workers' = [workers EXCEPT ![w] =
                   [me EXCEPT !.pc = "notify", !.result = "reaction"]]
     /\ UNCHANGED <<businesses, cache, now, opsStarted, http, alerts, handler>>

-----------------------------------------------------------------------------
(* processStatusUpdate and updateMessageStatus *)

\* the start of a processStatusUpdate call: the loop is at the first status
StatusCall(statuses) ==
  [IdleWorker EXCEPT !.op = "status", !.statuses = statuses, !.i = 1,
                     !.pc = "status_find"]

\* a processStatusUpdate call made directly, while fewer than `limit` calls
\* have been made; an empty statuses array returns
StartStatusWithin(w, statuses, limit) ==
  /\ CanStartWithin(w, limit)
  /\ statuses # <<>>
  /\ opsStarted' = opsStarted + 1
  /\ workers' = [workers EXCEPT ![w] = StatusCall(statuses)]
  /\ UNCHANGED <<conversations, businesses, cache, now, http, alerts, handler>>

StartStatus(w, statuses) == StartStatusWithin(w, statuses, MaxOps)

\* an updateMessageStatus that throws when no conversation holds the message
StatusFindThrowing(w) ==
  LET me == workers[w]
      c == FindConversationOfMessage(me.statuses[me.i].id)
  IN /\ me.pc = "status_find"
     /\ workers' = [workers EXCEPT ![w] =
          IF c = 0
          THEN Finished(w, "error")
          ELSE [me EXCEPT !.conv = c, !.pc = "status_update"]]
     /\ UNCHANGED <<conversations, businesses, cache, now, opsStarted, http, alerts, handler>>

\* updateMessageStatus: the global findOne({'messages.whatsappMessageId'})
StatusFind(w) ==
  LET me == workers[w]
      c == FindConversationOfMessage(me.statuses[me.i].id)
  IN /\ me.pc = "status_find"
     /\ workers' = [workers EXCEPT ![w] =
          IF c = 0
          THEN [me EXCEPT !.conv = 0, !.result = "not_found", !.pc = "status_notify"]
          ELSE [me EXCEPT !.conv = c, !.pc = "status_update"]]
     /\ UNCHANGED <<conversations, businesses, cache, now, opsStarted, http, alerts, handler>>

\* the status a stored message takes when a status event is applied to it
AppliedStatus(old, new) == new

\* the document after updateOne({_id, 'messages.whatsappMessageId'},
\* {$set: {'messages.$.status'}}): the positional $ is the first match
StatusedConversation(c, id, status) ==
  LET Match(m) == m.whatsappMessageId = id
      k == FindIndex(c.messages, Match)
  IN IF k = 0 THEN c
     ELSE [c EXCEPT !.messages[k].status = AppliedStatus(@, status)]

\* updateMessageStatus: the updateOne
StatusUpdate(w) ==
  LET me == workers[w]
      ev == me.statuses[me.i]
  IN /\ me.pc = "status_update"
     /\ conversations' = [conversations EXCEPT ![me.conv] =
          StatusedConversation(@, ev.id, ev.status)]
     /\ workers' = [workers EXCEPT ![w] =
          [me EXCEPT !.result = "updated", !.pc = "status_notify"]]
     /\ UNCHANGED <<businesses, cache, now, opsStarted, http, alerts, handler>>

\* the rest of one loop round: updateCampaignRecipientStatus, then notifyClients
\* when the message was found and the status is sent, delivered or read
StatusNotify(w) ==
  LET me == workers[w]
      ev == me.statuses[me.i]
      calls == me.result = "updated" /\ ev.status \in {"delivered", "read", "sent"}
      n == IF calls THEN me.notified + 1 ELSE me.notified
  IN /\ me.pc = "status_notify"
     /\ \E up \in (IF calls THEN BOOLEAN ELSE {TRUE}) :
          LET d == IF calls /\ up THEN me.delivered + 1 ELSE me.delivered
              r == NotifyResult(me.result, up)
          IN workers' = [workers EXCEPT ![w] =
               IF r = "error"
               THEN [Finished(w, r) EXCEPT !.notified = n, !.delivered = d]
               ELSE IF me.i < Len(me.statuses)
               THEN [me EXCEPT !.i = me.i + 1, !.notified = n, !.delivered = d,
                               !.conv = 0, !.pc = "status_find"]
               ELSE [Finished(w, r) EXCEPT !.notified = n, !.delivered = d]]
     /\ UNCHANGED <<conversations, businesses, cache, now, opsStarted, http, alerts, handler>>

-----------------------------------------------------------------------------
(* The external administration path: the backend that shares the store *)

\* the backend archives, closes or reopens a conversation
BackendSetStatus(c, st) ==
  /\ c \in ConvIds
  /\ conversations[c].status # st
  /\ conversations' = [conversations EXCEPT ![c].status = st]
  /\ UNCHANGED <<businesses, cache, now, workers, opsStarted, http, alerts, handler>>

\* a conversation document without a conversationWindow sub-document
NoWindow == [isOpen |-> FALSE, openedAt |-> 0, expiresAt |-> 0, category |-> None]

\* the backend marks the window expired (keep = TRUE) or the document has none
BackendCloseWindow(c, keep) ==
  /\ c \in ConvIds
  /\ conversations[c].conversationWindow.isOpen
  /\ conversations' = [conversations EXCEPT ![c].conversationWindow =
       IF keep THEN [@ EXCEPT !.isOpen = FALSE] ELSE NoWindow]
  /\ UNCHANGED <<businesses, cache, now, workers, opsStarted, http, alerts, handler>>

\* the backend suspends, deletes or reactivates a tenant
BackendSetBusinessStatus(b, st) ==
  /\ b \in BusinessIds
  /\ businesses[b].status # st
  /\ businesses' = [businesses EXCEPT ![b].status = st, ![b].updatedAt = now]
  /\ UNCHANGED <<conversations, cache, now, workers, opsStarted, http, alerts, handler>>

-----------------------------------------------------------------------------
(* businessCache.getByPhoneNumberId, store operation by store operation *)

\* the instants of the clock: whole TTLs and the milliseconds after them
Clock == {n * CACHE_TTL + ms : n \in 0..MaxTicks, ms \in 0..MaxTicks}

\* Date.now() advances to a later instant; while a Business.findOne is awaited
\* it advances by milliseconds only: the store answers within MaxTicks ms
Tick(t) ==
  /\ t \in Clock
  /\ t > now
  /\ (\E w \in Workers : workers[w].pc \in {"cache_query", "cache_set"})
       => t - now <= MaxTicks
  /\ now' = t
  /\ UNCHANGED <<conversations, businesses, cache, workers, opsStarted, http, alerts,
                 handler>>

\* a finished lookup: the business returned, and the instant of the call
Looked(me, business, result) ==
  [me EXCEPT !.pc = "done", !.business = business, !.result = result]

\* the call of getByPhoneNumberId(p), up to the await: a cached entry younger
\* than CACHE_TTL is returned, otherwise Business.findOne is sent
CacheLookup(w, p) ==
  LET called == [IdleWorker EXCEPT !.op = "lookup", !.cur = p, !.at = now]
  IN /\ CanStart(w)
     /\ opsStarted' = opsStarted + 1
     /\ workers' = [workers EXCEPT ![w] =
          IF CacheHit(PhoneKey(p))
          THEN Looked(called, cache[PhoneKey(p)].business, "hit")
          ELSE [called EXCEPT !.pc = "cache_query"]]
     /\ UNCHANGED <<conversations, businesses, cache, now, http, alerts, handler>>

\* the store executes Business.findOne({phoneNumberId, status: 'active'})
CacheQuery(w) ==
  LET me == workers[w]
  IN /\ me.pc = "cache_query"
     /\ workers' = [workers EXCEPT ![w] =
          [me EXCEPT !.business = FindActiveByPhoneNumberId(me.cur),
                     !.pc = "cache_set"]]
     /\ UNCHANGED <<conversations, businesses, cache, now, opsStarted, http, alerts,
                    handler>>

\* the continuation after the await: cache.set with timestamp Date.now() when a
\* business was found, and the return
CacheSet(w) ==
  LET me == workers[w]
  IN /\ me.pc = "cache_set"
     /\ cache' = IF me.business = NoBusiness THEN cache
                 ELSE [cache EXCEPT ![PhoneKey(me.cur)] =
                         [present |-> TRUE, business |-> me.business,
                          timestamp |-> now]]
     /\ workers' = [workers EXCEPT ![w] = Looked(me, me.business, "miss")]
     /\ UNCHANGED <<conversations, businesses, now, opsStarted, http, alerts, handler>>

-----------------------------------------------------------------------------
(* GET /webhook: verifyWebhook *)

BusinessStatuses == {"active", "suspended", "deleted"}

\* Business.findOne({'whatsappConfig.verifyToken': token, status: 'active',
\* isDeleted: false})
FindActiveByVerifyToken(token) ==
  LET hit == {b \in BusinessIds :
                /\ businesses[b].verifyToken = token
                /\ businesses[b].status = "active"
                /\ businesses[b].isDeleted = FALSE}
  IN IF hit = {} THEN NoBusiness ELSE businesses[CHOOSE b \in hit : TRUE]

\* !x for a query parameter: absent or the empty string
Falsy(x) == x \in {None, ""}

\* the response of verifyWebhook to the query q; storeUp is FALSE when
\* Business.findOne rejects
VerifyResponse(q, storeUp) ==
  IF Falsy(q.mode) \/ Falsy(q.token) THEN [status |-> "400", body |-> "Bad Request"]
  ELSE IF q.mode # "subscribe" THEN [status |-> "403", body |-> "Forbidden"]
  ELSE IF ~storeUp THEN [status |-> "500", body |-> "Internal Server Error"]
  ELSE IF FindActiveByVerifyToken(q.token) # NoBusiness
  THEN [status |-> "200", body |-> q.challenge]
  ELSE [status |-> "403", body |-> "Forbidden"]

\* one GET /webhook request
VerifyGet(q, storeUp) ==
  /\ opsStarted < MaxOps
  /\ opsStarted' = opsStarted + 1
  /\ http' = [status |-> VerifyResponse(q, storeUp).status,
              handled |-> FALSE, tampered |-> FALSE, query |-> q,
              body |-> VerifyResponse(q, storeUp).body, signed |-> FALSE,
              skipped |-> None]
  /\ UNCHANGED <<conversations, businesses, cache, now, workers, alerts, handler>>

-----------------------------------------------------------------------------
(* POST /webhook: verifySignatureMiddleware, then handleWebhook *)

\* the bytes of a request body: a JSON content in one of its encodings
\* ("compact" is what JSON.stringify writes, "spaced" any other encoding of
\* the same content: white space, escapes, key order)
RawBody(content, enc) == [content |-> content, enc |-> enc]

\* express.json(): req.body
JsonParse(raw) == raw.content

\* JSON.stringify(req.body)
JsonStringify(content) == RawBody(content, "compact")

\* 'sha256=' + HMAC-SHA256(secret, bytes).digest('hex'): distinct inputs give
\* distinct digests, all of one length
Hmac(secret, raw) == [kind |-> "hmac", secret |-> secret, raw |-> raw]

NoRaw == RawBody([entryId |-> None, field |-> None, phoneNumberId |-> None,
                  msg |-> NoMsg, statuses |-> <<>>], "compact")

\* no x-hub-signature-256 header
NoSignature == [kind |-> "absent", secret |-> None, raw |-> NoRaw]

\* a header whose length is not that of 'sha256=' plus 64 hex digits
ShortSignature == [kind |-> "short", secret |-> None, raw |-> NoRaw]

\* one change of one entry: {entry: [{id, changes: [{field, value}]}]}, the
\* value holding metadata.phone_number_id, messages[0] (NoMsg: none) and statuses
Content(entryId, field, phoneNumberId, msg, statuses) ==
  [entryId |-> entryId, field |-> field, phoneNumberId |-> phoneNumberId,
   msg |-> msg, statuses |-> statuses]

\* change.value as processIncomingMessage reads it
ChangeValue(body) == [body.msg EXCEPT !.phoneNumberId = body.phoneNumberId]

Request(raw, signature) == [raw |-> raw, signature |-> signature]

\* req.body?.entry?.[0]?.changes?.[0]?.value?.metadata?.phone_number_id
RequestPhoneNumberId(r) == JsonParse(r.raw).phoneNumberId

\* a middleware that rejects a POST without the header, and a POST whose tenant
\* has no app secret, with 401
MiddlewareOutcomeStrict(r) ==
  LET business == GetByPhoneNumberId(RequestPhoneNumberId(r))
      expectedSignature == Hmac(business.appSecret, JsonStringify(JsonParse(r.raw)))
  IN IF r.signature.kind = "absent" THEN "401"
     ELSE IF RequestPhoneNumberId(r) = None THEN "400"
     ELSE IF business = NoBusiness THEN "404"
     ELSE IF business.appSecret = None THEN "401"
     ELSE IF r.signature.kind = "short" THEN "500"
     ELSE IF r.signature # expectedSignature THEN "401"
     ELSE "next"

\* what verifySignatureMiddleware does with a POST: "next" or the HTTP status
\* of the response that ends the request
MiddlewareOutcome(r) ==
  LET business == GetByPhoneNumberId(RequestPhoneNumberId(r))
      expectedSignature == Hmac(business.appSecret, JsonStringify(JsonParse(r.raw)))
  IN IF r.signature.kind = "absent" THEN "next"
     ELSE IF RequestPhoneNumberId(r) = None THEN "400"
     ELSE IF business = NoBusiness THEN "404"
     ELSE IF business.appSecret = None THEN "next"
     ELSE IF r.signature.kind = "short" THEN "500"
     ELSE IF r.signature # expectedSignature THEN "401"
     ELSE "next"

\* the middleware reached businessCache.getByPhoneNumberId
MiddlewareLooksUp(r) ==
  r.signature.kind # "absent" /\ RequestPhoneNumberId(r) # None

\* the header is present and is not the HMAC of the request's bytes under the
\* app secret of the tenant the request resolves to
Tampered(r) ==
  LET business == GetByPhoneNumberId(RequestPhoneNumberId(r))
  IN /\ r.signature.kind # "absent"
     /\ RequestPhoneNumberId(r) # None
     /\ business # NoBusiness
     /\ business.appSecret # None
     /\ r.signature # Hmac(business.appSecret, r.raw)

\* one element of body.entry with one change: the content of the change, whether
\* the change has a value, and value.event of an account alert
Entry(content, hasValue, event) ==
  [content |-> content, hasValue |-> hasValue, event |-> event]

\* the fields handleWebhook passes to processAccountAlert
AlertFields == {"account_alerts", "phone_number_quality_update", "account_update"}

\* the start of a processAccountAlert(change, value, business, requestId) call
AlertCall(en, business) ==
  [IdleWorker EXCEPT !.op = "alert", !.pc = "alert_create", !.business = business,
                     !.alert = [field |-> en.content.field, event |-> en.event,
                                hasValue |-> en.hasValue]]

\* value.event of the account alerts of the requests
AlertEvent == "e1"

\* the header is the HMAC of the request's bytes under the app secret of the
\* active tenant that entry.id identifies
ValidlySigned(r) ==
  LET business == FindByWabaId(JsonParse(r.raw).entryId)
  IN /\ business # NoBusiness
     /\ business.status = "active"
     /\ business.appSecret # None
     /\ r.signature = Hmac(business.appSecret, r.raw)

\* why the request cannot be verified: it has no header, or it has one and is
\* addressed to an active tenant that has no app secret; None when it can
Unverifiable(r) ==
  LET business == FindActiveByPhoneNumberId(RequestPhoneNumberId(r))
  IN IF r.signature.kind = "absent" THEN "no_header"
     ELSE IF /\ RequestPhoneNumberId(r) # None
             /\ business # NoBusiness
             /\ business.appSecret = None
     THEN "no_secret"
     ELSE None

\* the processing functions handleWebhook calls for the request, in call order
Dispatched(r) ==
  LET body == JsonParse(r.raw)
  IN IF FindByWabaId(body.entryId) = NoBusiness THEN <<>>
     ELSE IF body.field = "messages"
     THEN (IF body.msg # NoMsg THEN <<"incoming">> ELSE <<>>)
          \o (IF body.statuses # <<>> THEN <<"status">> ELSE <<>>)
     ELSE IF body.field \in AlertFields THEN <<"alert">>
     ELSE <<>>

FreeWorkers == {w \in Workers : Free(w)}

\* the k-th free slot, lowest first
NthFree(k) ==
  CHOOSE w \in FreeWorkers : Cardinality({u \in FreeWorkers : u < w}) = k - 1

\* one POST /webhook request, from the middleware to the calls of handleWebhook
\* (which answers 200 first and does not await the calls)
ReceivePost(r) ==
  LET out == MiddlewareOutcome(r)
      body == JsonParse(r.raw)
      calls == IF out = "next" THEN Dispatched(r) ELSE <<>>
      Call(k) == CASE calls[k] = "incoming" -> IncomingCall(ChangeValue(body))
                   [] calls[k] = "status" -> StatusCall(body.statuses)
                   [] OTHER -> AlertCall(Entry(body, TRUE, AlertEvent),
                                         FindByWabaId(body.entryId))
      lookedUp == MiddlewareLooksUp(r)
                    \/ (\E k \in 1..Len(calls) : calls[k] = "incoming"
                                                 /\ body.phoneNumberId # None)
  IN /\ Len(calls) <= Cardinality(FreeWorkers)
     /\ opsStarted + Len(calls) <= MaxOps
     /\ http' = [status |-> IF out = "next" THEN "200" ELSE out,
                 handled |-> out = "next",
                 tampered |-> Tampered(r),
                 query |-> NoQuery,
                 body |-> IF out = "next" THEN "EVENT_RECEIVED" ELSE "error",
                 signed |-> ValidlySigned(r),
                 skipped |-> Unverifiable(r)]
     /\ cache' = IF lookedUp THEN CacheAfterGetByPhoneNumberId(RequestPhoneNumberId(r))
                 ELSE cache
     /\ workers' = [w \in Workers |->
          IF \E k \in 1..Len(calls) : w = NthFree(k)
          THEN Call(CHOOSE k \in 1..Len(calls) : w = NthFree(k))
          ELSE workers[w]]
     /\ opsStarted' = opsStarted + Len(calls)
     /\ UNCHANGED <<conversations, businesses, now, alerts, handler>>

-----------------------------------------------------------------------------
(* handleWebhook, entry by entry, and processAccountAlert *)

\* reading value.messages of a change without a value throws a TypeError in the loop
EntryThrows(en) == en.content.field = "messages" /\ ~en.hasValue

\* the processing functions called for the change of an entry, in call order
EntryCalls(en) ==
  IF en.content.field = "messages"
  THEN (IF en.content.msg # NoMsg THEN <<"incoming">> ELSE <<>>)
       \o (IF en.content.statuses # <<>> THEN <<"status">> ELSE <<>>)
  ELSE IF en.content.field \in AlertFields THEN <<"alert">>
  ELSE <<>>

\* the document of AlertLog.create for an account_alerts change
AlertDoc(business, alert) ==
  [businessId |-> business._id, userId |-> business.owner,
   alertType |-> "ACCOUNT_ALERT", severity |-> "MEDIUM", event |-> alert.event,
   status |-> "UNREAD"]

\* the processing of the request before has ended, and nothing in it failed
Completed ==
  /\ handler.pc = "done"
  /\ ~handler.failed
  /\ \A w \in Workers : Free(w) /\ workers[w].result \notin {"error", "caught"}

\* the state of handleWebhook when it starts to read the body
StartedHandler(body) ==
  [pc |-> IF body = <<>> THEN "done" ELSE "entry", body |-> body,
   e |-> 1, called |-> {}, failed |-> FALSE,
   retry |-> (Completed /\ body = handler.body)]

\* a handleWebhook that reads the body and has not answered the request
HandleWebhookUnanswered(body) ==
  /\ handler.pc \in {"idle", "done"}
  /\ http' = [status |-> None, handled |-> TRUE, tampered |-> FALSE,
              query |-> NoQuery, body |-> None, signed |-> FALSE,
              skipped |-> None]
  /\ handler' = StartedHandler(body)
  /\ UNCHANGED <<conversations, businesses, cache, now, workers, opsStarted, alerts>>

\* handleWebhook is called: it answers 200 'EVENT_RECEIVED', then reads the body
HandleWebhook(body) ==
  /\ handler.pc \in {"idle", "done"}
  /\ http' = [status |-> "200", handled |-> TRUE, tampered |-> FALSE,
              query |-> NoQuery, body |-> "EVENT_RECEIVED", signed |-> FALSE,
              skipped |-> None]
  /\ handler' = StartedHandler(body)
  /\ UNCHANGED <<conversations, businesses, cache, now, workers, opsStarted, alerts>>

\* one round of the loop over body.entry: the awaited Business.findOne by WABA
\* id, then the calls for the change, which are not awaited.  A rejected findOne
\* or a TypeError ends handleWebhook in its catch block.
HandleEntry ==
  LET en == handler.body[handler.e]
      business == FindByWabaId(en.content.entryId)
      calls == IF business = NoBusiness THEN <<>> ELSE EntryCalls(en)
      Call(k) == CASE calls[k] = "incoming" -> IncomingCall(ChangeValue(en.content))
                   [] calls[k] = "status" -> StatusCall(en.content.statuses)
                   [] OTHER -> AlertCall(en, business)
      lookedUp == \E k \in 1..Len(calls) :
                    calls[k] = "incoming" /\ en.content.phoneNumberId # None
  IN /\ handler.pc = "entry"
     /\ \E storeUp \in BOOLEAN :
          IF ~storeUp \/ (business # NoBusiness /\ EntryThrows(en))
          THEN /\ handler' = [handler EXCEPT !.pc = "done", !.failed = TRUE]
               /\ UNCHANGED <<workers, opsStarted, cache>>
          ELSE /\ Len(calls) <= Cardinality(FreeWorkers)
               /\ opsStarted + Len(calls) <= MaxOps
               /\ handler' = [handler EXCEPT
                    !.pc = IF handler.e < Len(handler.body) THEN "entry" ELSE "done",
                    !.e = handler.e + 1,
                    !.called = IF calls = <<>> THEN @ ELSE @ \cup {handler.e}]
               /\ workers' = [w \in Workers |->
                    IF \E k \in 1..Len(calls) : w = NthFree(k)
                    THEN Call(CHOOSE k \in 1..Len(calls) : w = NthFree(k))
                    ELSE workers[w]]
               /\ opsStarted' = opsStarted + Len(calls)
               /\ cache' = IF lookedUp
                           THEN CacheAfterGetByPhoneNumberId(en.content.phoneNumberId)
                           ELSE cache
     /\ UNCHANGED <<conversations, businesses, now, http, alerts>>

\* processAccountAlert for an account_alerts change: AlertLog.create; reading
\* value.event of a missing value, or a rejected create, ends in the catch block
AlertCreate(w) ==
  LET me == workers[w]
  IN /\ me.pc = "alert_create"
     /\ \E storeUp \in BOOLEAN :
          IF ~me.alert.hasValue \/ ~storeUp
          THEN /\ workers' = [workers EXCEPT ![w] = Finished(w, "caught")]
               /\ UNCHANGED alerts
          ELSE /\ alerts' = Append(alerts, AlertDoc(me.business, me.alert))
               /\ workers' = [workers EXCEPT ![w] = Finished(w, "alert")]
     /\ UNCHANGED <<conversations, businesses, cache, now, opsStarted, http, handler>>

-----------------------------------------------------------------------------
(* handleWebhook: the dispatch of one change, with its whole value *)

\* a change of an entry whose business was found: the field tag (None: absent),
\* value.metadata.phone_number_id, value.messages and value.statuses
Change(field, phoneNumberId, messages, statuses) ==
  [field |-> field, phoneNumberId |-> phoneNumberId, messages |-> messages,
   statuses |-> statuses]

\* extractMessageData(webhookData): the data of webhookData.messages[0]
extractMessageData(ch) ==
  IF ch.messages = <<>> THEN NoMsg
  ELSE [ch.messages[1] EXCEPT !.phoneNumberId = ch.phoneNumberId]

\* the processing functions handleWebhook calls for a change, in call order:
\* the if / else-if chain compares change.field only, and the last else ignores
\* the change
ChangeCalls(ch) ==
  IF ch.field = "messages"
  THEN (IF Len(ch.messages) > 0 THEN <<"incoming">> ELSE <<>>)
       \o (IF Len(ch.statuses) > 0 THEN <<"status">> ELSE <<>>)
  ELSE <<>>

\* the executions after the calls were made for the change, each on a free slot
StartedCalls(calls, ch) ==
  [w \in Workers |->
     IF \E k \in 1..Len(calls) : w = NthFree(k)
     THEN LET k == CHOOSE j \in 1..Len(calls) : w = NthFree(j)
          IN IF calls[k] = "incoming" THEN IncomingCall(extractMessageData(ch))
             ELSE StatusCall(ch.statuses)
     ELSE workers[w]]

\* one round of the loop over entry.changes; handler.body holds the change
HandleChange(ch) ==
  LET calls == ChangeCalls(ch)
      lookedUp == \E k \in 1..Len(calls) :
                    calls[k] = "incoming" /\ ch.phoneNumberId # None
  IN /\ Len(calls) <= Cardinality(FreeWorkers)
     /\ opsStarted + Len(calls) <= MaxOps
     /\ handler' = [IdleHandler EXCEPT !.pc = "done", !.body = <<ch>>]
     /\ workers' = StartedCalls(calls, ch)
     /\ opsStarted' = opsStarted + Len(calls)
     /\ cache' = IF lookedUp THEN CacheAfterGetByPhoneNumberId(ch.phoneNumberId)
                 ELSE cache
     /\ UNCHANGED <<conversations, businesses, now, http, alerts>>

-----------------------------------------------------------------------------
(* POST /webhook with a body of several entries *)

\* req.body?.entry?.[0]?.changes?.[0]?.value?.metadata?.phone_number_id of a
\* body that is a sequence of entries
BatchPhoneNumberId(r) ==
  IF JsonParse(r.raw) = <<>> THEN None ELSE JsonParse(r.raw)[1].content.phoneNumberId

\* verifySignatureMiddleware on such a request: the tenant and its secret are
\* those of the first change of the first entry
BatchOutcome(r) ==
  LET business == GetByPhoneNumberId(BatchPhoneNumberId(r))
      expectedSignature == Hmac(business.appSecret, JsonStringify(JsonParse(r.raw)))
  IN IF r.signature.kind = "absent" THEN "next"
     ELSE IF BatchPhoneNumberId(r) = None THEN "400"
     ELSE IF business = NoBusiness THEN "404"
     ELSE IF business.appSecret = None THEN "next"
     ELSE IF r.signature.kind = "short" THEN "500"
     ELSE IF r.signature # expectedSignature THEN "401"
     ELSE "next"

\* the one POST of a behaviour: the middleware, then handleWebhook, which
\* answers 200 and starts to read the entries; http.request keeps the request
ReceiveBatch(r) ==
  LET out == BatchOutcome(r)
      lookedUp == r.signature.kind # "absent" /\ BatchPhoneNumberId(r) # None
  IN /\ handler.pc = "idle"
     /\ http.status = None
     /\ http' = [status |-> IF out = "next" THEN "200" ELSE out,
                 handled |-> out = "next",
                 tampered |-> FALSE,
                 query |-> NoQuery,
                 body |-> IF out = "next" THEN "EVENT_RECEIVED" ELSE "error",
                 signed |-> FALSE,
                 skipped |-> None,
                 request |-> r]
     /\ handler' = IF out = "next" THEN StartedHandler(JsonParse(r.raw)) ELSE handler
     /\ cache' = IF lookedUp THEN CacheAfterGetByPhoneNumberId(BatchPhoneNumberId(r))
                 ELSE cache
     /\ UNCHANGED <<conversations, businesses, now, workers, opsStarted, alerts>>

-----------------------------------------------------------------------------
(* processProfileUpdate and updateContactProfile *)

\* $slice: -20 of the $push into contact.profileHistory
HistoryLimit == 20

\* the value read from a field a document does not have
Undefined == "undefined"

FieldOf(doc, f) == IF f \in DOMAIN doc THEN doc[f] ELSE Undefined

\* the last n elements of s
LastN(s, n) == IF Len(s) <= n THEN s ELSE SubSeq(s, Len(s) - n + 1, Len(s))

\* one element of value.contacts; an absent profile.name is the empty name,
\* an absent photo_url or about is None
Contact(wa_id, name, photo_url, about) ==
  [wa_id |-> wa_id, name |-> name, photo_url |-> photo_url, about |-> about]

\* profileData built by processProfileUpdate for one contact
ProfileData(contact) ==
  [phoneNumber |-> contact.wa_id,
   name |-> IF contact.name = <<>> THEN contact.wa_id ELSE contact.name,
   profilePhoto |-> contact.photo_url,
   about |-> contact.about,
   updatedAt |-> now]

\* findOne({'contact.phoneNumber', isDeleted: false}): the _id of the first
\* matching document, 0 when there is none
FindConversationOfContact(phone) ==
  LET Matches(i) == /\ conversations[i].contact.phoneNumber = phone
                    /\ ~conversations[i].isDeleted
  IN IF \E i \in ConvIds : Matches(i)
     THEN CHOOSE i \in ConvIds : Matches(i) /\ \A j \in 1..(i - 1) : ~Matches(j)
     ELSE 0

ProfileChange(field, oldValue, newValue, timestamp) ==
  [field |-> field, oldValue |-> oldValue, newValue |-> newValue,
   timestamp |-> timestamp]

\* the changes updateContactProfile detects with !==, in the order name,
\* profilePhoto, about
ProfileChanges(oldProfile, pd) ==
  (IF oldProfile.name # pd.name
   THEN <<ProfileChange("name", oldProfile.name, pd.name, pd.updatedAt)>>
   ELSE <<>>)
  \o (IF FieldOf(oldProfile, "profilePhoto") # pd.profilePhoto
      THEN <<ProfileChange("profilePhoto", FieldOf(oldProfile, "profilePhoto"),
                           pd.profilePhoto, pd.updatedAt)>>
      ELSE <<>>)
  \o (IF pd.about # None /\ FieldOf(oldProfile, "about") # pd.about
      THEN <<ProfileChange("about", FieldOf(oldProfile, "about"), pd.about,
                           pd.updatedAt)>>
      ELSE <<>>)

\* an update whose $push into contact.profileHistory has no $slice
ProfiledConversationUnbounded(c, pd, changes) ==
  LET old == c.contact
      fields == DOMAIN old \cup {"profilePhoto", "profileHistory"}
                  \cup (IF pd.about # None THEN {"about"} ELSE {})
      history == IF "profileHistory" \in DOMAIN old THEN old.profileHistory ELSE <<>>
  IN [c EXCEPT !.contact =
        [f \in fields |->
           CASE f = "name" -> pd.name
             [] f = "profilePhoto" -> pd.profilePhoto
             [] f = "about" /\ pd.about # None -> pd.about
             [] f = "profileHistory" -> history \o changes
             [] OTHER -> old[f]]]

\* the document after updateOne({_id}, {$set: contact.name, contact.profilePhoto
\* [, contact.about], $push: contact.profileHistory {$each, $slice: -20}})
ProfiledConversation(c, pd, changes) ==
  LET old == c.contact
      fields == DOMAIN old \cup {"profilePhoto", "profileHistory"}
                  \cup (IF pd.about # None THEN {"about"} ELSE {})
      history == IF "profileHistory" \in DOMAIN old THEN old.profileHistory ELSE <<>>
  IN [c EXCEPT !.contact =
        [f \in fields |->
           CASE f = "name" -> pd.name
             [] f = "profilePhoto" -> pd.profilePhoto
             [] f = "about" /\ pd.about # None -> pd.about
             [] f = "profileHistory" -> LastN(history \o changes, HistoryLimit)
             [] OTHER -> old[f]]]

\* a processProfileUpdate call: statuses holds value.contacts, i the position
\* of the loop over it
ProfileCall(contacts) ==
  [IdleWorker EXCEPT !.op = "profile", !.statuses = contacts, !.i = 1,
                     !.pc = "profile_find"]

\* a processProfileUpdate call, while fewer than `limit` calls have been made;
\* an empty contacts array returns
StartProfile(w, contacts, limit) ==
  /\ CanStartWithin(w, limit)
  /\ contacts # <<>>
  /\ opsStarted' = opsStarted + 1
  /\ workers' = [workers EXCEPT ![w] = ProfileCall(contacts)]
  /\ UNCHANGED <<conversations, businesses, cache, now, http, alerts, handler>>

\* processProfileUpdate called with the value of a change: the value carries
\* metadata.phone_number_id, which the function does not read
StartProfileChange(w, p, contacts, limit) ==
  /\ CanStartWithin(w, limit)
  /\ contacts # <<>>
  /\ opsStarted' = opsStarted + 1
  /\ workers' = [workers EXCEPT ![w] =
       [ProfileCall(contacts) EXCEPT !.msg = [NoMsg EXCEPT !.phoneNumberId = p]]]
  /\ UNCHANGED <<conversations, businesses, cache, now, http, alerts, handler>>

\* the worker after one round of the loop over contacts
ProfileRoundDone(w, me) ==
  IF me.i < Len(me.statuses)
  THEN [me EXCEPT !.i = me.i + 1, !.conv = 0, !.rx = None, !.pc = "profile_find"]
  ELSE [Finished(w, me.result) EXCEPT !.notified = me.notified,
                                      !.delivered = me.delivered]

\* updateContactProfile: the findOne by phone number and the comparison with
\* the profile it read
ProfileFind(w) ==
  LET me == workers[w]
      pd == ProfileData(me.statuses[me.i])
      c == FindConversationOfContact(pd.phoneNumber)
      changes == ProfileChanges(conversations[c].contact, pd)
  IN /\ me.pc = "profile_find"
     /\ workers' = [workers EXCEPT ![w] =
          IF c = 0
          THEN ProfileRoundDone(w, [me EXCEPT !.result = "not_found"])
          ELSE IF changes = <<>>
          THEN [me EXCEPT !.conv = c, !.at = now, !.rx = <<>>,
                          !.result = "unchanged", !.pc = "profile_notify"]
          ELSE [me EXCEPT !.conv = c, !.at = now, !.rx = changes,
                          !.pc = "profile_update"]]
     /\ UNCHANGED <<conversations, businesses, cache, now, opsStarted, http, alerts, handler>>

\* updateContactProfile: the updateOne
ProfileUpdate(w) ==
  LET me == workers[w]
      pd == [ProfileData(me.statuses[me.i]) EXCEPT !.updatedAt = me.at]
  IN /\ me.pc = "profile_update"
     /\ conversations' = [conversations EXCEPT ![me.conv] =
          ProfiledConversation(@, pd, me.rx)]
     /\ workers' = [workers EXCEPT ![w] =
          [me EXCEPT !.result = "updated", !.pc = "profile_notify"]]
     /\ UNCHANGED <<businesses, cache, now, opsStarted, http, alerts, handler>>

\* the notifyClients call of a round whose updateContactProfile succeeded
ProfileNotify(w) ==
  LET me == workers[w]
  IN /\ me.pc = "profile_notify"
     /\ \E up \in BOOLEAN :
          workers' = [workers EXCEPT ![w] =
            ProfileRoundDone(w, [me EXCEPT
              !.notified = me.notified + 1,
              !.delivered = IF up THEN me.delivered + 1 ELSE me.delivered,
              !.result = NotifyResult(me.result, up)])]
     /\ UNCHANGED <<conversations, businesses, cache, now, opsStarted, http, alerts, handler>>

-----------------------------------------------------------------------------
(* Specifications *)

\* the steps of the executions in progress
Step(w) ==
  \/ FindConv(w)
  \/ InsertConv(w)
  \/ RefetchConv(w)
  \/ SaveCheck(w)
  \/ SaveRead(w)
  \/ SavePush(w)
  \/ Notify(w)

\* the steps of addReactionToMessage
ReactStep(w) ==
  \/ ReactFind(w)
  \/ ReactUpdate(w)

\* the steps of processStatusUpdate
StatusStep(w) ==
  \/ StatusFind(w)
  \/ StatusUpdate(w)
  \/ StatusNotify(w)

\* text messages m1 and m2 of one contact to one tenant
IngestInputs == {TextMsg("p1", PhoneA, id, EventTime(id)) : id \in MsgIds}

\* status batches: every single status event, and pairs of events for m1
StatusInputs ==
  {<<StatusEvent(id, st)>> : id \in MsgIds, st \in Statuses}
    \cup {<<StatusEvent("m1", "delivered"), StatusEvent("m1", "sent")>>,
          <<StatusEvent("m1", "read"), StatusEvent("m1", "delivered")>>,
          <<StatusEvent("m1", "failed"), StatusEvent("m1", "read")>>,
          <<StatusEvent("m1", "sent"), StatusEvent("m1", "failed")>>}

\* concurrent ingestion and status updates for one tenant: the processing
\* functions are called at any time, their store operations interleave
Next ==
  \E w \in Workers :
    \/ \E v \in IngestInputs : StartIncoming(w, v)
    \/ \E b \in StatusInputs : StartStatus(w, b)
    \/ Step(w)
    \/ StatusStep(w)

Spec == Init /\ [][Next]_vars

\* text messages of one contact, written in two forms, reactions to m1, and a
\* text message to a phone number id no business has
SeqInputs ==
  {TextMsg("p1", f, id, EventTime(id)) : f \in {PhoneA, PhoneB}, id \in MsgIds}
    \cup {TextMsg("p0", PhoneA, "m1", EventTime("m1"))}
    \cup {ReactionMsg("p1", f, "m2", EventTime("m2"), "m1", e) :
            f \in {PhoneA, PhoneB}, e \in Emojis}

\* sequential ingestion: a call is made when the call before it has returned;
\* the backend changes conversations at any time
SeqNext ==
  \/ \E v \in SeqInputs : AllFree /\ StartIncoming(1, v)
  \/ Step(1)
  \/ ReactStep(1)
  \/ \E c \in 1..MaxOps, st \in ConvStatuses : BackendSetStatus(c, st)
  \/ \E c \in 1..MaxOps, keep \in BOOLEAN : BackendCloseWindow(c, keep)

SeqSpec == Init /\ [][SeqNext]_vars

\* text messages of one contact to the three tenants
TenantInputs ==
  {TextMsg(p, PhoneA, id, EventTime(id)) : p \in PhoneNumberIds, id \in MsgIds}

\* sequential ingestion for several tenants
TenantNext ==
  \/ \E v \in TenantInputs : AllFree /\ StartIncoming(1, v)
  \/ Step(1)

TenantSpec == Init /\ [][TenantNext]_vars

\* a text message m1 and reactions to m1 and m2 from two reactors
ReactInputs ==
  {TextMsg("p1", PhoneA, "m1", EventTime("m1"))}
    \cup {ReactionMsg("p1", f, "m2", EventTime("m2"), t, e) :
            f \in {PhoneA, PhoneB}, t \in MsgIds, e \in Emojis}

\* concurrent reactions
ReactNext ==
  \E w \in Workers :
    \/ \E v \in ReactInputs : StartIncoming(w, v)
    \/ Step(w)
    \/ ReactStep(w)

ReactSpec == Init /\ [][ReactNext]_vars

\* the reaction events of one contact to m1: event id and timestamp (seconds)
ReactionEvents == {<<"m2", EventTime("m2")>>, <<"m3", EventTime("m2") + 1>>}

\* a text message m1 and non-empty reactions of its sender to it, at two times
OrderInputs ==
  {TextMsg("p1", PhoneA, "m1", EventTime("m1"))}
    \cup {ReactionMsg("p1", PhoneA, ev[1], ev[2], "m1", e) :
            ev \in ReactionEvents, e \in Emojis \ {""}}

\* sequential ingestion of the message and the reactions, in any arrival order
OrderNext ==
  \/ \E v \in OrderInputs : AllFree /\ StartIncoming(1, v)
  \/ Step(1)
  \/ ReactStep(1)

OrderSpec == Init /\ [][OrderNext]_vars

\* changes for tenant b1: the field tag is 'messages', absent, or a tag the
\* receiver does not know; value.messages holds no, one or two text messages
\* of one contact, value.statuses no, one or two status events
DispatchChanges ==
  LET M(id) == TextMsg("p1", PhoneA, id, EventTime(id))
  IN {Change(f, "p1", ms, ss) :
        f \in {"messages", None, "other"},
        ms \in {<<>>, <<M("m1")>>, <<M("m1"), M("m2")>>},
        ss \in {<<>>, <<StatusEvent("m1", "read")>>,
                <<StatusEvent("m1", "delivered"), StatusEvent("m2", "read")>>}}

\* changes dispatched at any time, and the calls made for them
DispatchNext ==
  \/ \E ch \in DispatchChanges : HandleChange(ch)
  \/ \E w \in Workers : Step(w)
  \/ \E w \in Workers : StatusStep(w)

DispatchSpec == Init /\ [][DispatchNext]_vars

\* lookups of tenant b1 by its phone number id, while the clock advances and
\* the backend suspends the tenant
CacheNext ==
  \/ \E w \in Workers : CacheLookup(w, "p1")
  \/ \E w \in Workers : CacheQuery(w)
  \/ \E w \in Workers : CacheSet(w)
  \/ \E t \in Clock : Tick(t)
  \/ BackendSetBusinessStatus("b1", "suspended")

CacheSpec == Init /\ [][CacheNext]_vars

\* POST requests: a text message for tenant b1 (secret s1), for b3 (no secret),
\* for no tenant or without metadata, in either encoding, with no header, a
\* header of another length, or an HMAC of the content under s1 or s2
HttpTargets ==
  {<<"w1", "p1">>, <<"w0", "p1">>, <<"w1", "p3">>, <<"w1", "p0">>, <<"w1", None>>}

HttpContents ==
  {Content(t[1], "messages", t[2], TextMsg(t[2], PhoneA, "m1", EventTime("m1")), <<>>) :
     t \in HttpTargets}

HttpSignatures(c) ==
  {NoSignature, ShortSignature, Hmac("s2", RawBody(c, "compact"))}
    \cup {Hmac("s1", RawBody(c, enc)) : enc \in {"compact", "spaced"}}

HttpRequests ==
  UNION {{Request(RawBody(c, enc), sig) : enc \in {"compact", "spaced"},
                                          sig \in HttpSignatures(c)} :
           c \in HttpContents}

\* an account alert for tenant b1: the value of this change kind carries no
\* metadata.phone_number_id
HttpAlert == Content("w1", "account_alerts", None, NoMsg, <<>>)

\* the requests above, and the alert without a header and with the HMAC of its
\* bytes under s1
SignRequests ==
  HttpRequests
    \cup {Request(RawBody(HttpAlert, "compact"), sig) :
            sig \in {NoSignature, Hmac("s1", RawBody(HttpAlert, "compact"))}}

\* A store left by earlier calls, as the receiver finds it when it starts: one
\* conversation whose message m1 was given three reactions by its contact, one
\* after the other (each addReactionToMessage call added an entry).
RaceTarget == TextMsg("p1", PhoneA, "m1", EventTime("m1"))

RaceSeed ==
  LET b == InitialBusinesses.b1
      c0 == NewConversation(1, normalizePhone(PhoneA), PhoneA, b.owner, b._id,
                            PreviewText(RaceTarget), MessageTime(RaceTarget))
      c1 == PushedConversation(c0, RaceTarget, b, "active")
      React(c, emoji) ==
        ReactedConversation(c, "m1", ReactionBranch(0, emoji), 0, PhoneA, emoji,
                            EventTime("m2") * MsPerSecond)
  IN React(React(React(c1, "thumb"), "heart"), "star")

RaceInit ==
  /\ conversations = <<RaceSeed>>
  /\ businesses = InitialBusinesses
  /\ cache = EmptyCache
  /\ now = 0
  /\ workers = [w \in Workers |-> IdleWorker]
  /\ opsStarted = 0
  /\ http = [status |-> None, handled |-> FALSE, tampered |-> FALSE,
             query |-> NoQuery, body |-> None, signed |-> FALSE,
             skipped |-> None]
  /\ alerts = <<>>
  /\ handler = IdleHandler

\* reactions of the contact to m1 (one repeated, one new, one removal), and a
\* text message of another contact
RaceInputs ==
  {ReactionMsg("p1", PhoneA, "m2", EventTime("m2"), "m1", e) : e \in {"", "heart", "star"}}
    \cup {TextMsg("p1", PhoneD, "m1", EventTime("m1"))}

\* concurrent reactions on the stored message
RaceNext ==
  \E w \in Workers :
    \/ \E v \in RaceInputs : StartIncomingWithin(w, v, MaxRaceOps)
    \/ Step(w)
    \/ ReactStep(w)

RaceSpec == RaceInit /\ [][RaceNext]_vars

\* GET requests: hub.mode absent, empty, subscribe or another word,
\* hub.verify_token absent, empty, the token of b1 or b2, or of no tenant
VerifyQueries ==
  {[mode |-> m, token |-> t, challenge |-> c] :
     m \in {None, "", "subscribe", "unsubscribe"},
     t \in {None, "", "t1", "t2", "t0"},
     c \in {None, "c1", "c2"}}

\* verification requests, while the backend changes the status of tenants
VerifyNext ==
  \/ \E q \in VerifyQueries, storeUp \in BOOLEAN : VerifyGet(q, storeUp)
  \/ \E b \in {"b1", "b2"}, st \in BusinessStatuses : BackendSetBusinessStatus(b, st)

VerifySpec == Init /\ [][VerifyNext]_vars

\* the tenants at the start: b2 is active, suspended or deleted
WebhookInit ==
  /\ conversations = <<>>
  /\ \E st \in BusinessStatuses :
       businesses = [InitialBusinesses EXCEPT !.b2.status = st]
  /\ cache = EmptyCache
  /\ now = 0
  /\ workers = [w \in Workers |-> IdleWorker]
  /\ opsStarted = 0
  /\ http = [status |-> None, handled |-> FALSE, tampered |-> FALSE,
             query |-> NoQuery, body |-> None, signed |-> FALSE,
             skipped |-> None]
  /\ alerts = <<>>
  /\ handler = IdleHandler

\* entries: a text message for b1, a status event for it, a messages change
\* without a value, an account alert for b2, and an account alert for a WABA
\* id no business has
WebhookEntries ==
  {Entry(Content("w1", "messages", "p1", TextMsg("p1", PhoneA, "m1", EventTime("m1")),
                 <<>>), TRUE, None),
   Entry(Content("w1", "messages", "p1", NoMsg, <<StatusEvent("m1", "read")>>),
         TRUE, None),
   Entry(Content("w1", "messages", None, NoMsg, <<>>), FALSE, None),
   Entry(Content("w2", "account_alerts", None, NoMsg, <<>>), TRUE, "e1"),
   Entry(Content("w0", "account_alerts", None, NoMsg, <<>>), TRUE, "e1")}

\* request bodies of one entry, and of two entries of which the first is a
\* status event or a change without a value
WebhookBodies ==
  {<<a>> : a \in WebhookEntries}
    \cup {<<a, b>> : a \in {x \in WebhookEntries : x.content.msg = NoMsg
                                                   /\ x.content.field = "messages"},
                     b \in WebhookEntries}

\* POST requests that reached handleWebhook, and the calls it made
WebhookNext ==
  \/ \E body \in WebhookBodies : HandleWebhook(body)
  \/ HandleEntry
  \/ \E w \in Workers : Step(w)
  \/ \E w \in Workers : StatusStep(w)
  \/ \E w \in Workers : AlertCreate(w)

WebhookSpec == WebhookInit /\ [][WebhookNext]_vars

HttpNext ==
  \/ \E r \in HttpRequests : ReceivePost(r)
  \/ \E w \in Workers : Step(w)

HttpSpec == Init /\ [][HttpNext]_vars

\* POST requests received one after the other: a request arrives when the
\* calls made for the request before it have ended
SignNext ==
  \/ \E r \in SignRequests : AllFree /\ ReceivePost(r)
  \/ \E w \in Workers : Step(w)
  \/ \E w \in Workers : AlertCreate(w)

SignSpec == Init /\ [][SignNext]_vars

\* the steps of processProfileUpdate
ProfileStep(w) ==
  \/ ProfileFind(w)
  \/ ProfileUpdate(w)
  \/ ProfileNotify(w)

\* the names a contact profile carries: absent, or a name of its own
ProfileNames == {<<>>, <<"A">>}

\* messages m1 and m2 of one contact, a reaction and a removal of it for m1,
\* status events for m1, and profile updates of the contact and of a contact
\* that has no conversation
AppendMessages ==
  {TextMsg("p1", PhoneA, id, EventTime(id)) : id \in MsgIds}
    \cup {ReactionMsg("p1", PhoneA, "m2", EventTime("m2"), "m1", e) :
            e \in {"", "thumb"}}

AppendStatuses == {<<StatusEvent("m1", st)>> : st \in {"delivered", "read"}}

AppendContacts ==
  {<<Contact(p, n, None, None)>> : p \in {PhoneA, PhoneB}, n \in ProfileNames}
    \cup {<<Contact(PhoneA, <<"A">>, "photo", "about")>>}

\* every ingestion operation: a call is made when the call before it has returned
AppendNext ==
  \/ \E v \in AppendMessages : AllFree /\ StartIncomingWithin(1, v, MaxAppendOps)
  \/ \E b \in AppendStatuses : AllFree /\ StartStatusWithin(1, b, MaxAppendOps)
  \/ \E cs \in AppendContacts : AllFree /\ StartProfile(1, cs, MaxAppendOps)
  \/ Step(1)
  \/ ReactStep(1)
  \/ StatusStep(1)
  \/ ProfileStep(1)

AppendSpec == Init /\ [][AppendNext]_vars

\* two profiles of one contact that differ in name, photo and about
HistoryContacts ==
  {<<Contact(PhoneA, <<"A">>, "photo", "about")>>,
   <<Contact(PhoneA, <<"B">>, "photo2", "about2")>>}

\* a message that creates the conversation, then profile updates of its contact
HistoryNext ==
  \/ AllFree /\ StartIncomingWithin(1, TextMsg("p1", PhoneA, "m1", EventTime("m1")),
                                    MaxHistoryOps)
  \/ \E cs \in HistoryContacts : AllFree /\ StartProfile(1, cs, MaxHistoryOps)
  \/ Step(1)
  \/ ProfileStep(1)

HistorySpec == Init /\ [][HistoryNext]_vars

\* one message of every type buildMessageContent distinguishes, of a type it
\* does not know, and a reaction to a message that is not stored
ContentInputs ==
  LET T(id, type, subtype, detail) ==
        TypedMsg("p1", PhoneA, id, EventTime(id), type, subtype, detail)
  IN {TextMsg("p1", PhoneA, id, EventTime(id)) : id \in MsgIds}
       \cup {T(id, type, None, None) : id \in MsgIds, type \in MediaTypes \cup {"order"}}
       \cup {T(id, type, None, d) : id \in MsgIds, type \in {"location", "contacts"},
                                    d \in {None, "Ann"}}
       \cup {T(id, "interactive", s, d) :
               id \in MsgIds, s \in {"button_reply", "list_reply", "nfm_reply"},
               d \in {None, "Yes"}}
       \cup {ReactionMsg("p1", PhoneA, "m2", EventTime("m2"), "m1", "thumb")}

\* sequential ingestion of messages of every type
ContentNext ==
  \/ \E v \in ContentInputs : AllFree /\ StartIncomingWithin(1, v, MaxContentOps)
  \/ Step(1)
  \/ ReactStep(1)

ContentSpec == Init /\ [][ContentNext]_vars

\* the messages change of tenant n (account id wn, phone number id pn) with
\* one text message
TenantEntry(n, id) ==
  Entry(Content(<<"w1", "w2", "w3">>[n], "messages", <<"p1", "p2", "p3">>[n],
                TextMsg(<<"p1", "p2", "p3">>[n], PhoneA, id, EventTime(id)), <<>>),
        TRUE, None)

\* bodies of two entries, each for one of the three tenants
BatchBodies == {<<TenantEntry(a, "m1"), TenantEntry(b, "m2")>> : a, b \in 1..3}

\* each body without signature header, with a header that is not an HMAC of
\* its bytes, and signed with the secret of b1 or of b2
BatchRequests ==
  {Request(RawBody(body, "compact"),
           [NoSignature EXCEPT !.raw = RawBody(body, "compact")]) :
     body \in BatchBodies}
    \cup {Request(RawBody(body, "compact"), Hmac(s, RawBody(body, "compact"))) :
            body \in BatchBodies, s \in {"s0", "s1", "s2"}}

\* one request of two entries, and the calls made for it
BatchNext ==
  \/ \E r \in BatchRequests : ReceiveBatch(r)
  \/ HandleEntry
  \/ \E w \in Workers : Step(w)

BatchSpec == Init /\ [][BatchNext]_vars

\* messages of one contact to the three tenants, then profile updates of that
\* contact in changes addressed to each tenant
ProfileTenantNext ==
  \/ \E v \in TenantInputs : AllFree /\ StartIncoming(1, v)
  \/ \E p \in PhoneNumberIds, n \in ProfileNames :
       AllFree /\ StartProfileChange(1, p, <<Contact(PhoneA, n, None, None)>>, MaxOps)
  \/ Step(1)
  \/ ProfileStep(1)

ProfileTenantSpec == Init /\ [][ProfileTenantNext]_vars

\* one message of a contact in two written forms to the three tenants
ConvInputs ==
  {TextMsg(p, f, "m1", EventTime("m1")) : p \in PhoneNumberIds, f \in {PhoneA, PhoneB}}

\* concurrent findOrCreateConversation calls
ConvNext ==
  \E w \in Workers :
    \/ \E v \in ConvInputs : StartIncoming(w, v)
    \/ Step(w)

ConvSpec == Init /\ [][ConvNext]_vars

\* the written forms in which the platform names a contact
ContactForms == {PhoneA, PhoneB, PhoneD}

\* messages of contacts named in each form, then profile updates naming them
\* in each form
ProfileFindNext ==
  \/ \E f \in ContactForms :
       AllFree /\ StartIncoming(1, TextMsg("p1", f, "m1", EventTime("m1")))
  \/ \E f \in ContactForms, n \in ProfileNames :
       AllFree /\ StartProfile(1, <<Contact(f, n, None, None)>>, MaxOps)
  \/ Step(1)
  \/ ProfileStep(1)

ProfileFindSpec == Init /\ [][ProfileFindNext]_vars

\* bodies of one entry with a messages change: the account id of the entry
\* and the phone number id of the change are those of b1 or b3, in any pairing
OwnerBodies ==
  {<<Entry(Content(wid, "messages", p, TextMsg(p, PhoneA, "m1", EventTime("m1")), <<>>),
           TRUE, None)>> :
     wid \in {"w1", "w3"}, p \in {"p1", "p3"}}

\* requests that reached handleWebhook, and the calls it made
OwnerNext ==
  \/ \E body \in OwnerBodies : HandleWebhook(body)
  \/ HandleEntry
  \/ \E w \in Workers : Step(w)

OwnerSpec == Init /\ [][OwnerNext]_vars

-----------------------------------------------------------------------------
(* Properties *)

\* number of messages of conversation c that carry whatsappMessageId id
MessageCount(c, id) ==
  LET Same(m) == m.whatsappMessageId = id
  IN CountIf(conversations[c].messages, Same)

\* the counters of conversation c count each stored message once
CountedOnce(c) ==
  LET conv == conversations[c]
  IN /\ conv.metrics.totalMessages = Len(conv.messages)
     /\ conv.metrics.incomingMessages = Len(conv.messages)
     /\ conv.unreadCount = Len(conv.messages)

\* execution w is a processIncomingMessage call that has returned or thrown
ReturnedIncoming(w) == workers[w].pc = "done" /\ workers[w].op = "incoming"

\* C1: sequential idempotence of ingestion.  When the calls run one after the
\* other, no conversation holds two messages with one whatsappMessageId, the
\* counters totalMessages, incomingMessages and unreadCount were incremented once
\* per stored message, and a call made for an id that was already stored does
\* not store it again: for a message that goes to saveMessageToConversation
\* directly it returns the duplicate outcome.
C1_SequentialIdempotence ==
  /\ \A c \in ConvIds : \A id \in MsgIds : MessageCount(c, id) <= 1
  /\ \A c \in ConvIds : CountedOnce(c)
  /\ \A w \in Workers :
       (ReturnedIncoming(w) /\ workers[w].existed) =>
         /\ workers[w].result # "saved"
         /\ workers[w].msg.type = "text" => workers[w].result = "duplicate"

\* a second call for m1 has returned the duplicate outcome, and the conversation
\* holds m1 once with counters of 1
C1_Witness ==
  \E w \in Workers :
    /\ ReturnedIncoming(w)
    /\ workers[w].existed
    /\ workers[w].result = "duplicate"
    /\ workers[w].msg.id = "m1"
    /\ MessageCount(workers[w].conv, "m1") = 1
    /\ conversations[workers[w].conv].metrics.totalMessages = 1
    /\ conversations[workers[w].conv].unreadCount = 1

\* C2: concurrent duplicate rejection.  However the store operations of the
\* calls interleave, no conversation holds two messages with one
\* whatsappMessageId and the counters were incremented once per stored id.
C2_ConcurrentDuplicateRejected ==
  \A c \in ConvIds :
    /\ \A id \in MsgIds : MessageCount(c, id) <= 1
    /\ conversations[c].metrics.totalMessages
         = Cardinality({id \in MsgIds : MessageCount(c, id) > 0})

\* position of a delivery status in the order sent < delivered < read; 0 for
\* a status outside the order
StatusRank(st) ==
  CASE st = "sent" -> 1
    [] st = "delivered" -> 2
    [] st = "read" -> 3
    [] OTHER -> 0

\* C3: the status of a stored message never regresses.  No step takes the
\* status of a message from read to delivered or sent, or from delivered to sent.
C3_StatusNeverRegresses ==
  [][\A c \in ConvIds : \A k \in 1..Len(conversations[c].messages) :
       LET old == conversations[c].messages[k].status
           new == conversations'[c].messages[k].status
       IN (StatusRank(old) > 0 /\ StatusRank(new) > 0)
            => StatusRank(new) >= StatusRank(old)]_vars

\* C4: failed is terminal.  No step changes the status of a message that is
\* failed, and the updateOne of a failed status event leaves the message failed
\* whatever its status was.
C4_FailedIsTerminal ==
  [][/\ \A c \in ConvIds : \A k \in 1..Len(conversations[c].messages) :
          conversations[c].messages[k].status = "failed"
            => conversations'[c].messages[k].status = "failed"
     /\ \A w \in Workers :
          (/\ workers[w].pc = "status_update"
           /\ workers'[w].pc = "status_notify"
           /\ workers[w].statuses[workers[w].i].status = "failed")
            => LET c == workers[w].conv
                   Match(m) == m.whatsappMessageId = workers[w].statuses[workers[w].i].id
                   k == FindIndex(conversations[c].messages, Match)
               IN conversations'[c].messages[k].status = "failed"]_vars

\* the conversations of tenant b and contact address phone
ConversationsOf(b, phone) ==
  {c \in ConvIds : /\ conversations[c].businessId = b
                   /\ conversations[c].contact.phoneNumber = phone
                   /\ ~conversations[c].isDeleted}

\* C7: no inbound message is lost under concurrency.  Once every running
\* execution has ended, the message of each processIncomingMessage call made for
\* an active tenant is stored in the one conversation of that tenant and contact.
C7_NoLostInboundMessage ==
  \A w \in Workers :
    (/\ \A x \in Workers : Free(x)
     /\ ReturnedIncoming(w)
     /\ workers[w].msg.phoneNumberId \in PhoneNumberIds) =>
      LET b == FindActiveByPhoneNumberId(workers[w].msg.phoneNumberId)._id
          mine == ConversationsOf(b, normalizePhone(workers[w].msg.from))
      IN /\ Cardinality(mine) = 1
         /\ \A c \in mine : HasMessage(conversations[c], workers[w].msg.id)

\* C5: a tampered signature drops everything.  A POST whose x-hub-signature-256
\* header is not the HMAC-SHA256 of its body under the app secret of the resolved
\* tenant never reaches handleWebhook, so that nothing is stored for it.
C5_TamperedSignatureDropsEverything == http.tampered => ~http.handled

\* the tenant a processIncomingMessage call resolved, by phone_number_id
TenantOf(v) == FindActiveByPhoneNumberId(v.phoneNumberId)._id

\* C6: tenant isolation of conversations.  A step of an ingestion for tenant A
\* changes no conversation of another tenant, and once the ingestions have
\* ended every tenant that was sent a message by the contact has a conversation
\* document of its own for that contact, holding the message.
C6_TenantIsolation ==
  [][/\ \A w \in Workers : \A c \in ConvIds :
          (/\ workers[w].op = "incoming"
           /\ workers'[w] # workers[w]
           /\ workers[w].business # NoBusiness
           /\ conversations[c].businessId # workers[w].business._id)
            => conversations'[c] = conversations[c]
     /\ \A w \in Workers :
          (/\ workers'[w].pc = "done"
           /\ workers'[w].op = "incoming"
           /\ workers'[w].msg.phoneNumberId \in PhoneNumberIds)
            => \E c \in 1..Len(conversations') :
                 /\ conversations'[c].businessId = TenantOf(workers'[w].msg)
                 /\ conversations'[c].contact.phoneNumber
                      = normalizePhone(workers'[w].msg.from)
                 /\ HasMessage(conversations'[c], workers'[w].msg.id)]_vars

\* number of reaction entries of reactor from in a reactions array
ReactionCount(reactions, from) ==
  LET Mine(r) == r.from = from
  IN CountIf(reactions, Mine)

\* the reacting addresses of the inputs
Reactors == {PhoneA, PhoneB}

\* C8: reaction uniqueness.  After any sequence of addReactionToMessage calls,
\* the reactions list of a message holds at most one entry per reacting address.
C8_ReactionUniqueness ==
  \A c \in ConvIds : \A k \in 1..Len(conversations[c].messages) :
    \A from \in Reactors :
      ReactionCount(conversations[c].messages[k].reactions, from) <= 1

\* the window an inbound message with timestamp ts opens
RefreshedWindow(ts) == [isOpen |-> TRUE, openedAt |-> ts, expiresAt |-> ts + WindowMs]

\* the three fields of the conversationWindow of a conversation document
WindowOf(c) ==
  [isOpen |-> c.conversationWindow.isOpen,
   openedAt |-> c.conversationWindow.openedAt,
   expiresAt |-> c.conversationWindow.expiresAt]

\* C10: window refresh.  The append of a non-duplicate inbound message with
\* timestamp T by saveMessageToConversation leaves conversationWindow.isOpen
\* true, openedAt = T and expiresAt = T + 24 h, whatever the window and the
\* status of the conversation were.
C10_WindowRefresh ==
  [][\A w \in Workers :
       (workers[w].pc = "save_push" /\ workers'[w].pc = "notify")
         => WindowOf(conversations'[workers[w].conv])
              = RefreshedWindow(MessageTime(workers[w].msg))]_vars

\* a message was appended to a conversation that was closed: the window is the
\* one the message opens, which differs from the one the conversation was given
\* when it was inserted
C10_Witness ==
  \E w \in Workers :
    /\ workers[w].pc = "notify"
    /\ workers[w].result = "saved"
    /\ workers[w].cur = "closed"
    /\ MessageTime(workers[w].msg) # EventTime("m1") * MsPerSecond
    /\ Len(conversations[workers[w].conv].messages) = 1
    /\ WindowOf(conversations[workers[w].conv])
         = RefreshedWindow(MessageTime(workers[w].msg))

\* the reaction entries of a reactions array that are not from reactor from
OtherReactions(reactions, from) ==
  LET Other(r) == r.from # from
  IN SelectSeq(reactions, Other)

\* C9: reaction removal.  When addReactionToMessage ends for an empty emoji from
\* reactor R on a message the conversation holds, the message has no reaction
\* entry from R and the entries of the other reactors are as they were.
C9_ReactionRemoval ==
  [][\A w \in Workers :
       LET me == workers[w]
           c == conversations[me.conv]
           d == conversations'[me.conv]
       IN (/\ me.pc \in {"react_find", "react_update"}
           /\ workers'[w].pc \notin {"react_find", "react_update"}
           /\ me.msg.emoji = ""
           /\ HasMessage(c, me.msg.reactionTo))
            => \A k \in 1..Len(c.messages) :
                 c.messages[k].whatsappMessageId = me.msg.reactionTo
                   => /\ ReactionCount(d.messages[k].reactions, me.msg.from) = 0
                      /\ OtherReactions(d.messages[k].reactions, me.msg.from)
                           = OtherReactions(c.messages[k].reactions, me.msg.from)]_vars

\* C11: a duplicate is a pure no-op.  A processIncomingMessage run for a text
\* message that its conversation already holds changes no conversation document
\* in any of its steps, and the run that ends with the duplicate outcome of
\* saveMessageToConversation has not called notifyClients.
C11_DuplicateIsNoOp ==
  [][\A w \in Workers :
       /\ (/\ workers'[w] # workers[w]
           /\ workers'[w].op = "incoming"
           /\ workers'[w].msg.type = "text"
           /\ workers'[w].existed)
            => conversations' = conversations
       /\ (/\ workers'[w] # workers[w]
           /\ workers'[w].pc = "done"
           /\ workers'[w].result = "duplicate")
            => /\ conversations' = conversations
               /\ workers'[w].notified = 0]_vars

\* a run for the stored message m1 has ended with the duplicate outcome without
\* a notification, in a conversation that holds two messages
C11_Witness ==
  \E w \in Workers :
    /\ ReturnedIncoming(w)
    /\ workers[w].existed
    /\ workers[w].msg.type = "text"
    /\ workers[w].result = "duplicate"
    /\ workers[w].notified = 0
    /\ Len(conversations[workers[w].conv].messages) = 2

\* C16: only 200, 400 or 403 are observable.  The HTTP status of every response
\* sent for a request to /webhook is 200, 400 or 403.
C16_ObservableStatuses == http.status \in {None, "200", "400", "403"}

\* C18: a status for an unknown message is benign.  When no conversation holds
\* the message of a status event, updateMessageStatus changes no conversation,
\* processStatusUpdate does not throw and does not call notifyClients for it,
\* and the loop goes on to the next status of the change.
C18_UnknownStatusIsBenign ==
  [][\A w \in Workers :
       LET me == workers[w]
           after == workers'[w]
       IN /\ (/\ me.pc = "status_find"
              /\ after # me
              /\ FindConversationOfMessage(me.statuses[me.i].id) = 0)
               => /\ conversations' = conversations
                  /\ after.pc = "status_notify"
                  /\ after.result = "not_found"
          /\ (/\ me.pc = "status_notify"
              /\ after # me
              /\ me.result = "not_found")
               => /\ conversations' = conversations
                  /\ after.notified = me.notified
                  /\ after.result # "error"
                  /\ IF me.i < Len(me.statuses)
                     THEN after.pc = "status_find" /\ after.i = me.i + 1
                     ELSE after.pc = "done"]_vars

\* the first status of a change named a message no conversation holds, and the
\* loop is at the second status, without a notification
C18_Witness ==
  \E w \in Workers :
    /\ workers[w].op = "status"
    /\ workers[w].pc = "status_find"
    /\ workers[w].i = 2
    /\ workers[w].result = "not_found"
    /\ workers[w].notified = 0
    /\ conversations = <<>>

\* the newest timestamp among the messages of a conversation document
NewestMessageTime(c) ==
  CHOOSE t \in {c.messages[k].timestamp : k \in 1..Len(c.messages)} :
    \A k \in 1..Len(c.messages) : c.messages[k].timestamp <= t

\* C20: the window tracks the newest inbound message under reordering.  After
\* the append of an inbound message, whatever the order of arrival,
\* conversationWindow.expiresAt is the newest timestamp among the stored
\* messages plus 24 h.
C20_WindowTracksNewest ==
  [][\A w \in Workers :
       (workers[w].pc = "save_push" /\ workers'[w].pc = "notify")
         => conversations'[workers[w].conv].conversationWindow.expiresAt
              = NewestMessageTime(conversations'[workers[w].conv]) + WindowMs]_vars

Processable(e) ==
  LET en == handler.body[e]
  IN /\ FindByWabaId(en.content.entryId) # NoBusiness
     /\ ~EntryThrows(en)
     /\ EntryCalls(en) # <<>>

C13_FailureIsolation ==
  (handler.pc = "done" /\ handler.failed) =>
    \A e \in (handler.e + 1)..Len(handler.body) :
      Processable(e) => e \in handler.called

C17_VerificationOutcome ==
  [][opsStarted' # opsStarted =>
       LET q == http'.query
           active == \E b \in BusinessIds : /\ businesses[b].verifyToken = q.token
                                            /\ businesses[b].status = "active"
       IN IF Falsy(q.mode) \/ Falsy(q.token) THEN http'.status = "400"
          ELSE IF q.mode = "subscribe" /\ active
          THEN http'.status = "200" /\ http'.body = q.challenge
          ELSE http'.status = "403"]_vars


\* the newest message of a conversation: the last element of its messages array
NewestMessage(c) == c.messages[Len(c.messages)]

\* C21: lastMessage is a consistent projection.  When no operation is in
\* progress, every conversation that holds messages has the text, type,
\* direction, timestamp and status of its newest message in lastMessage, and the
\* timestamp of that message in lastMessageAt.
C21_LastMessageProjection ==
  AllFree =>
    \A c \in ConvIds :
      conversations[c].messages # <<>> =>
        LET m == NewestMessage(conversations[c])
            last == conversations[c].lastMessage
        IN /\ last.text = m.text
           /\ last.type = m.type
           /\ last.direction = m.direction
           /\ last.timestamp = m.timestamp
           /\ last.status = m.status
           /\ conversations[c].lastMessageAt = m.timestamp

\* the entries of one reactor in a reactions array
ReactionsOf(reactions, from) ==
  LET Mine(r) == r.from = from
  IN SelectSeq(reactions, Mine)

\* C22: reaction last-timestamp-wins.  When a non-empty reaction is applied to
\* a message that holds one non-empty reaction of the same reactor with another
\* timestamp, the message afterwards holds one reaction of that reactor: the one
\* of the two with the greater timestamp, with its emoji and its timestamp.
C22_LastTimestampWins ==
  [][\A w \in Workers :
       LET me == workers[w]
           from == me.msg.from
           new == Reaction(from, me.msg.emoji, MessageTime(me.msg))
           before == ReactionsOf(TargetMessage(conversations[me.conv],
                                               me.msg.reactionTo).reactions, from)
           after == ReactionsOf(TargetMessage(conversations'[me.conv],
                                              me.msg.reactionTo).reactions, from)
       IN (/\ me.pc = "react_update"
           /\ workers'[w].pc = "notify"
           /\ me.msg.emoji # ""
           /\ Len(before) = 1
           /\ before[1].emoji # ""
           /\ before[1].timestamp # new.timestamp)
          => after = <<IF new.timestamp > before[1].timestamp THEN new
                       ELSE before[1]>>]_vars

\* C23: the orphan-reaction fallback happens only for a missing target.  A
\* processIncomingMessage call for a reaction goes on to
\* saveMessageToConversation only when the conversation does not hold the
\* message the reaction is addressed to.
C23_FallbackOnlyForMissingTarget ==
  [][\A w \in Workers :
       (/\ workers[w].pc \in {"react_find", "react_update"}
        /\ workers'[w].pc = "save_check")
       => ~HasMessage(conversations[workers[w].conv], workers[w].msg.reactionTo)]_vars

\* C24: reactivation on inbound message.  When saveMessageToConversation
\* appends a message to a conversation that is archived or closed, the
\* conversation is active afterwards; a conversation that is active stays active.
C24_ReactivationOnInbound ==
  [][\A w \in Workers :
       (workers[w].pc = "save_push" /\ workers'[w].pc = "notify")
         => /\ conversations[workers[w].conv].status \in ConvStatuses
            /\ conversations'[workers[w].conv].status = "active"]_vars

\* some conversation holds a message with this id
Stored(id) == \E c \in ConvIds : HasMessage(conversations[c], id)

\* C25: one stored message per message in a change.  When the calls made for a
\* 'messages' change have ended without an error, every message of
\* value.messages is stored and the batch value.statuses was processed to its end.
C25_EveryMessageOfChangeStored ==
  (AllFree /\ handler.pc = "done" /\ handler.body # <<>>) =>
    LET ch == handler.body[1]
    IN (ch.field = "messages" /\ \A w \in Workers : workers[w].result # "error") =>
         /\ \A i \in 1..Len(ch.messages) : Stored(ch.messages[i].id)
         /\ ch.statuses # <<>> =>
              \E w \in Workers : /\ workers[w].op = "status"
                                 /\ workers[w].statuses = ch.statuses
                                 /\ workers[w].pc = "done"

\* C26: dispatch falls back to payload keys.  For a change whose field tag is
\* absent or unknown, handleWebhook makes the calls it makes for the same value
\* under the tag 'messages'.
C26_DispatchFallsBackToPayload ==
  [][(handler' # handler /\ handler'.body # <<>>) =>
       LET ch == handler'.body[1]
       IN ch.field # "messages" =>
            workers' = StartedCalls(ChangeCalls([ch EXCEPT !.field = "messages"]), ch)]_vars

\* C27: a validly signed request is dispatched whatever its event kind.  A POST
\* whose header is the HMAC of its bytes under the secret of the active tenant
\* of entry.id is answered 200 and reaches handleWebhook, which calls the
\* processing function of its change.
C27_ValidlySignedIsDispatched ==
  http.signed => (http.status = "200" /\ http.handled)

\* C28: verification is skipped, not rejected, when it cannot be done.  A POST
\* without a signature header, and a POST with a header addressed to an active
\* tenant without an app secret, are answered 200 'EVENT_RECEIVED' and reach
\* handleWebhook.
C28_SkippedNotRejected ==
  http.skipped # None =>
    /\ http.status = "200"
    /\ http.body = "EVENT_RECEIVED"
    /\ http.handled

\* a request with a header for tenant b3, which has no app secret, was let
\* through and its message was stored
C28_Witness ==
  /\ http.skipped = "no_secret"
  /\ http.handled
  /\ \E w \in Workers :
       /\ ReturnedIncoming(w)
       /\ workers[w].result = "saved"
       /\ conversations[workers[w].conv].businessId = "b3"
       /\ HasMessage(conversations[workers[w].conv], workers[w].msg.id)

\* the document of the tenant with this phone number id, whatever its status
TenantByPhone(p) ==
  businesses[CHOOSE b \in BusinessIds : businesses[b].phoneNumberId = p]

C30_MessagesAppendOnly ==
  [][/\ Len(conversations) <= Len(conversations')
     /\ \A c \in ConvIds :
          LET old == conversations[c].messages
              new == conversations'[c].messages
          IN /\ Len(old) <= Len(new)
             /\ \A i \in 1..Len(old) :
                  /\ new[i].whatsappMessageId = old[i].whatsappMessageId
                  /\ [new[i] EXCEPT !.status = old[i].status,
                                    !.reactions = old[i].reactions] = old[i]]_vars

\* a conversation that was appended to after its first message was given a
\* status and a reaction, and whose contact profile was updated
C30_Witness ==
  /\ AllFree
  /\ \E c \in ConvIds :
       /\ Len(conversations[c].messages) >= 2
       /\ conversations[c].messages[1].whatsappMessageId = "m1"
       /\ conversations[c].messages[1].status = "read"
       /\ conversations[c].messages[1].reactions # <<>>
       /\ "profileHistory" \in DOMAIN conversations[c].contact

\* a stored or incoming profile value, an absent one read as None
ProfileValue(doc, f) == IF FieldOf(doc, f) = Undefined THEN None ELSE doc[f]

\* the fields among name, profilePhoto and about whose incoming value differs
\* from the stored one
DifferingFields(stored, pd) ==
  (IF stored.name # pd.name THEN {"name"} ELSE {})
    \cup {f \in {"profilePhoto", "about"} : ProfileValue(stored, f) # ProfileValue(pd, f)}

\* C31: updateContactProfile reports as changes exactly the fields among name,
\* profilePhoto and about whose incoming value differs from the stored value,
\* and the profile it writes yields no change when the same data is applied again.
C31_ProfileUpdateReportsChanges ==
  [][\A w \in Workers :
       LET me == workers[w]
           after == workers'[w]
           pd == ProfileData(me.statuses[me.i])
       IN /\ (me.pc = "profile_find" /\ after.pc \in {"profile_update", "profile_notify"}) =>
               {after.rx[k].field : k \in 1..Len(after.rx)}
                 = DifferingFields(conversations[after.conv].contact, pd)
          /\ (me.pc = "profile_update" /\ after.pc = "profile_notify") =>
               ProfileChanges(conversations'[me.conv].contact, pd) = <<>>]_vars

\* contact.profileHistory, empty when the contact has none
HistoryOf(contact) ==
  IF "profileHistory" \in DOMAIN contact THEN contact.profileHistory ELSE <<>>

\* C32: profile history is bounded. contact.profileHistory holds at most
\* HistoryLimit entries, and every updateContactProfile leaves in it the most
\* recent entries of the history it found followed by the changes it applied.
C32_ProfileHistoryBounded ==
  [][\A c \in ConvIds :
       LET before == HistoryOf(conversations[c].contact)
           new == HistoryOf(conversations'[c].contact)
       IN conversations'[c] # conversations[c] =>
            /\ Len(new) <= HistoryLimit
            /\ \E k \in 0..Len(new) :
                 /\ Len(new) - k <= Len(before)
                 /\ (Len(new) = HistoryLimit \/ Len(new) - k = Len(before))
                 /\ \A i \in 1..(Len(new) - k) :
                      new[i] = before[Len(before) - (Len(new) - k) + i]
                 /\ k > 0 =>
                      \E w \in Workers :
                        /\ workers[w].pc = "profile_update"
                        /\ k <= Len(workers[w].rx)
                        /\ \A i \in 1..k :
                             new[Len(new) - k + i]
                               = workers[w].rx[Len(workers[w].rx) - k + i]]_vars

\* a full history whose oldest entry has been dropped: the first change ever
\* applied to a contact is a change of name
C32_Witness ==
  /\ AllFree
  /\ \E c \in ConvIds :
       LET h == HistoryOf(conversations[c].contact)
       IN /\ Len(h) = HistoryLimit
          /\ h[1].field # "name"

\* execution w is suspended on an awaited notifyClients call: its next step is
\* the return of that call
AwaitsNotifier(w) ==
  LET me == workers[w]
  IN \/ me.pc = "notify"
     \/ me.pc = "profile_notify"
     \/ /\ me.pc = "status_notify"
        /\ me.result = "updated"
        /\ me.statuses[me.i].status \in {"delivered", "read", "sent"}

\* C33: notification is fire-and-forget. No processing function is ever
\* suspended until notifyClients finishes: neither its completion nor the next
\* status or contact of the same change waits for the notifier's answer.
C33_NotificationNotAwaited == \A w \in Workers : ~AwaitsNotifier(w)

\* the message types buildMessageContent has a case for
KnownTypes ==
  MediaTypes \cup {"text", "location", "contacts", "interactive", "reaction"}

\* C34: every normalized content has a text summary. The content.text of every
\* stored message is non-empty, and for a type T that buildMessageContent does
\* not know it is '[T]'.
C34_ContentHasTextSummary ==
  \A c \in ConvIds :
    \A i \in 1..Len(conversations[c].messages) :
      LET m == conversations[c].messages[i]
      IN /\ m.text # <<>>
         /\ m.type \notin KnownTypes => m.text = <<"[", m.type, "]">>

\* C35: every change is verified with its own tenant's secret. When the POST
\* carries a signature header, a message is stored for a tenant that has a
\* configured secret only if the header is the HMAC of the request's bytes
\* under that tenant's secret.
C35_EveryChangeVerifiedWithOwnSecret ==
  \A c \in ConvIds :
    LET b == businesses[conversations[c].businessId]
    IN ("request" \in DOMAIN http
          /\ http.request.signature.kind # "absent"
          /\ b.appSecret # None
          /\ conversations[c].messages # <<>>)
         => http.request.signature = Hmac(b.appSecret, http.request.raw)

\* C36: profile updates stay inside the tenant. A profile update delivered in
\* a change addressed to a tenant changes the contact of a conversation only
\* if the conversation belongs to that tenant.
C36_ProfileUpdateStaysInTenant ==
  [][\A c \in ConvIds :
       conversations'[c].contact # conversations[c].contact =>
         \E w \in Workers :
           /\ workers[w].pc = "profile_update"
           /\ workers[w].conv = c
           /\ FindActiveByPhoneNumberId(workers[w].msg.phoneNumberId)._id
                = conversations[c].businessId]_vars

C38_ProfileUpdateFindsConversation ==
  [][\A w \in Workers :
       LET me == workers[w]
           after == workers'[w]
           wa_id == me.statuses[me.i].wa_id
       IN (/\ me.pc = "profile_find"
           /\ after # me
           /\ \E c \in ConvIds :
                /\ conversations[c].contact.phoneNumber = normalizePhone(wa_id)
                /\ ~conversations[c].isDeleted)
            => /\ after.result # "not_found"
               /\ after.conv # 0
               /\ conversations[after.conv].contact.phoneNumber
                    = normalizePhone(wa_id)]_vars

\* the number of messages of conversation document c with direction 'incoming'
IncomingCount(c) ==
  Cardinality({i \in 1..Len(c.messages) : c.messages[i].direction = "incoming"})

\* C39: counters match the log. After every step that leaves no operation in
\* progress, metrics.incomingMessages of every conversation is the number of
\* its messages with direction 'incoming' and metrics.totalMessages is
\* incomingMessages + outgoingMessages; no step decreases a metrics counter.
C39_CountersMatchLog ==
  [][/\ (\A w \in Workers : workers'[w].pc \in {"idle", "done"}) =>
          \A c \in 1..Len(conversations') :
            LET m == conversations'[c].metrics
            IN /\ m.incomingMessages = IncomingCount(conversations'[c])
               /\ m.totalMessages = m.incomingMessages + m.outgoingMessages
     /\ \A c \in ConvIds :
          \A f \in DOMAIN conversations[c].metrics :
            conversations'[c].metrics[f] >= conversations[c].metrics[f]]_vars

\* no operation is in progress and a conversation that was sent two messages
\* at the same time holds both and counts both
C39_Witness ==
  /\ AllFree
  /\ \E c \in ConvIds :
       /\ Len(conversations[c].messages) = 2
       /\ conversations[c].metrics.incomingMessages = 2
       /\ conversations[c].metrics.totalMessages = 2
  /\ \A w \in Workers : workers[w].op = "incoming" /\ workers[w].result = "saved"

\* C40: the tenant that owns the entry is the tenant the message is stored
\* under. The business processIncomingMessage resolves from
\* value.metadata.phone_number_id for a messages change is the business
\* handleWebhook resolved from entry.id, and a message is stored only in a
\* conversation of that business.
C40_EntryOwnerIsMessageOwner ==
  [][\A w \in Workers :
       (/\ handler.pc = "entry"
        /\ workers[w].pc \in {"idle", "done"}
        /\ workers'[w] # workers[w]
        /\ workers'[w].op = "incoming"
        /\ workers'[w].pc = "find_conv")
         => workers'[w].business._id
              = FindByWabaId(handler.body[handler.e].content.entryId)._id]_vars

=============================================================================
